---- MODULE Spec2Model ----
(***************************************************************************)
(* A model of cblite's replication configuration classes:                  *)
(*   ReplicatorConfiguration   (src/cblite/src/replicator-configuration.ts)*)
(*   CollectionConfiguration   (src/cblite/src/collection-configuration.ts)*)
(*   CollectionConfig          (src/cblite/src/collection-config.ts)       *)
(* and of its vector index classes:                                        *)
(*   VectorIndexConfiguration, VectorIndex (src/cblite/src/vector-index.ts)*)
(*   IndexBuilder                  (src/cblite/src/index-builder.ts)       *)
(* and of its custom log sink:                                             *)
(*   LogSinks.setCustom            (src/cblite/src/log-sinks.ts)           *)
(*                                                                         *)
(* JavaScript objects live in heaps (sequences indexed by object identity):*)
(* a reference is an index, 0 is `undefined`.  One operation of the API is *)
(* one step; `last` records the call that made the step and its outcome.   *)
(***************************************************************************)
EXTENDS Integers, Sequences, FiniteSets, TLC

VARIABLES
    inst,       \* heap of ReplicatorConfiguration instances
    arrays,     \* heap of Collection[] arrays (the keys of collectionsMap)
    oldCfgs,    \* heap of CollectionConfig objects (old API)
    newCfgs,    \* heap of CollectionConfiguration objects (new API)
    hdrs,       \* heap of header objects { [name]: value }
    lists,      \* heap of string[] arrays (channels and document IDs)
    indexes,    \* heap of VectorIndexConfiguration and VectorIndex objects
    currentCustomToken,     \* LogSinks.currentCustomToken; -1 is null
    customLogCallbacksMap,  \* the engine's Map from token to callback
    calls,      \* the invocations of LogSinks.setCustom: [config, token, pc]
    native,     \* the logsinks_SetCustom calls issued to the engine, in order:
                \* [by, args, state], by being the invocation that awaits it
    last,       \* the last call: [op, inst, args, err, ret, again]; again
                \* says that the call before it was the same call
    nops        \* number of calls made since construction

vars == <<inst, arrays, oldCfgs, newCfgs, hdrs, lists, indexes,
          currentCustomToken, customLogCallbacksMap, calls, native, last, nops>>

heap == <<inst, arrays, oldCfgs, newCfgs, hdrs, lists>>

\* The objects that are no part of a replicator configuration.
sinks == <<currentCustomToken, customLogCallbacksMap, calls, native>>

unrelated == <<indexes, sinks>>

\* Bound: the number of API calls explored after construction.
MaxOps == 3

(***************************************************************************)
(* Values                                                                  *)
(***************************************************************************)
\* JavaScript `undefined` where a string is expected.
UNDEF == "undefined"

\* Errors, named after the messages the code throws.
NoError == "none"
ErrNoConfigs == "At least one collection configuration is required"
ErrNoTarget == "Target endpoint is required"
ErrProvidedAtConstruction == "Collections must be provided at construction"
ErrImmutable == "Collections are immutable"
ErrUseGetConfigurations == "Use getCollectionConfigurations() instead"
ErrNegativeWait == "maxAttemptWaitTime cannot be negative"
ErrScope == "All collections must be from the same database and scope"
ErrNoCollections == "No collections specified in the configuration"
ErrEval == "eval failed"
ErrTypeError == "TypeError"

\* enum ReplicatorType
ReplicatorType == {"PUSH_AND_PULL", "PUSH", "PULL"}

defaultContinuous == FALSE
defaultEnableAutoPurge == TRUE
defaultSelfSignedCertificateOnly == TRUE
defaultAcceptParentDomainCookies == FALSE
defaultAllowReplicatingInBackground == FALSE
defaultHeartbeat == 300
defaultMaxAttemptsSingleShot == 10
defaultMaxAttemptsWaitTime == 300

\* Collections (external objects): identity is the name; each has a scope and
\* a database.
Collections == {"users", "orders", "audit", "remote"}

DatabaseName(c) == IF c = "remote" THEN "db2" ELSE "db1"

ScopeName(c) == IF c = "audit" THEN "s2" ELSE "_default"

\* The endpoint handed to the constructors; NoTarget is an absent argument.
TheTarget == "ws://localhost:4984/mydb"
NoTarget == UNDEF

\* Source texts of the replication filter functions the caller uses.
FilterSources == {"(doc, flags) => true", "function (doc, flags) { return false; }"}

(***************************************************************************)
(* JavaScript values as they appear in a toJson() result, and JSON.stringify*)
(***************************************************************************)
JUndef == [t |-> "undefined"]
JNull == [t |-> "null"]
JStr(s) == [t |-> "string", v |-> s]
JArr(elems) == [t |-> "array", v |-> elems]
\* An object is the sequence of its <<key, value>> properties, in order.
JObj(props) == [t |-> "object", v |-> props]

\* A string that may be undefined.
JOptStr(s) == IF s = UNDEF THEN JUndef ELSE JStr(s)

\* s ?? null
JNullish(s) == IF s = UNDEF THEN JNull ELSE JStr(s)

JStrings(seq) == JArr([j \in DOMAIN seq |-> JStr(seq[j])])

\* The value of a string[] field: a reference l > 0 into the heap of lists ls,
\* 0 for undefined, -1 for null.
JList(l, ls) == IF l > 0 THEN JStrings(ls[l]) ELSE IF l = 0 THEN JUndef ELSE JNull

\* JSON.stringify: a property whose value is undefined is left out, an
\* undefined array element becomes null.  The text is represented by the
\* document it denotes (objects keep their key order).
RECURSIVE Stringify(_)
Stringify(x) ==
    CASE x.t = "array" ->
            JArr([j \in DOMAIN x.v |->
                    IF x.v[j].t = "undefined" THEN JNull ELSE Stringify(x.v[j])])
      [] x.t = "object" ->
            LET kept == SelectSeq(x.v, LAMBDA p : p[2].t # "undefined")
            IN  JObj([j \in DOMAIN kept |-> <<kept[j][1], Stringify(kept[j][2])>>])
      [] OTHER -> x

(***************************************************************************)
(* External collaborators (interfaces of the spec's section 6)             *)
(***************************************************************************)
\* Collection.toJson()
CollectionToJson(c) ==
    JObj(<< <<"name", JStr(c)>>,
            <<"scopeName", JStr(ScopeName(c))>>,
            <<"databaseName", JStr(DatabaseName(c))>> >>)

\* Endpoint.toJson()
EndpointToJson(t) == JObj(<< <<"url", JStr(t)>> >>)

\* Authenticator.getType() / toJson(); the one authenticator used is "basic".
Authenticators == {"basic"}

AuthenticatorToJson(a) ==
    JObj(<< <<"type", JStr(a)>>,
            <<"data", JObj(<< <<"username", JStr("u")>> >>)>> >>)

(***************************************************************************)
(* CollectionConfig (old API) and CollectionConfiguration (new API)        *)
(***************************************************************************)
\* new CollectionConfig(); ch and ids are the two arrays it allocates.
NewCollectionConfig(ch, ids) ==
    [channels |-> ch, documentIDs |-> ids, pullFilter |-> UNDEF, pushFilter |-> UNDEF]

\* CollectionConfig.toJson()
CollectionConfigToJson(k) ==
    JObj(<< <<"channels", JList(k.channels, lists)>>,
            <<"documentIds", JList(k.documentIDs, lists)>>,
            <<"pullFilter", JOptStr(k.pullFilter)>>,
            <<"pushFilter", JOptStr(k.pushFilter)>> >>)

\* new CollectionConfiguration(collection); ch and ids are the two arrays the
\* field initializers allocate.
NewCollectionConfiguration(c, ch, ids) ==
    [collection |-> c, channels |-> ch, documentIds |-> ids,
     pushFilter |-> UNDEF, pullFilter |-> UNDEF]

\* Mutant: the new API's element has the key of the old API's.
CollectionConfigurationToJson_PluralKey(n) ==
    JObj(<< <<"collections", CollectionToJson(n.collection)>>,
            <<"config", JObj(<< <<"channels", JList(n.channels, lists)>>,
                                <<"documentIds", JList(n.documentIds, lists)>>,
                                <<"pushFilter", JNullish(n.pushFilter)>>,
                                <<"pullFilter", JNullish(n.pullFilter)>> >>)>> >>)

\* CollectionConfiguration.toJson()
CollectionConfigurationToJson(n) ==
    JObj(<< <<"collection", CollectionToJson(n.collection)>>,
            <<"config", JObj(<< <<"channels", JList(n.channels, lists)>>,
                                <<"documentIds", JList(n.documentIds, lists)>>,
                                <<"pushFilter", JNullish(n.pushFilter)>>,
                                <<"pullFilter", JNullish(n.pullFilter)>> >>)>> >>)

\* JavaScript values handed to setPushFilter / setPullFilter: a function (src
\* is its source text), a number or a string (src is what toString() gives),
\* or null.
FunctionValue(text) == [t |-> "function", src |-> text]
NumberValue(text) == [t |-> "number", src |-> text]
StringValue(text) == [t |-> "string", src |-> text]
NullValue == [t |-> "null", src |-> UNDEF]

\* Function.prototype.toString(): the source text of a function value.
FunctionToString(f) == f.src

\* value.toString() as the filter setters call it: [err, text].  null has no
\* properties, so the call throws a TypeError.
ValueToString(v) ==
    IF v.t = "null" THEN [err |-> ErrTypeError, text |-> UNDEF]
    ELSE IF v.t = "function" THEN [err |-> NoError, text |-> FunctionToString(v)]
    ELSE [err |-> NoError, text |-> v.src]

\* CollectionConfig.setChannels / setDocumentIDs: the argument is stored.
ConfigSetChannels(k, l) == [k EXCEPT !.channels = l]
ConfigSetDocumentIDs(k, l) == [k EXCEPT !.documentIDs = l]

\* CollectionConfig.setPullFilter / setPushFilter: [err, obj].
ConfigSetPullFilter(k, v) ==
    [err |-> ValueToString(v).err,
     obj |-> IF ValueToString(v).err = NoError
             THEN [k EXCEPT !.pullFilter = ValueToString(v).text] ELSE k]
ConfigSetPushFilter(k, v) ==
    [err |-> ValueToString(v).err,
     obj |-> IF ValueToString(v).err = NoError
             THEN [k EXCEPT !.pushFilter = ValueToString(v).text] ELSE k]

\* CollectionConfiguration.setChannels / setDocumentIDs: `l ?? []`, the new
\* empty array being fresh.
ConfigurationSetChannels(n, l, fresh) ==
    [n EXCEPT !.channels = IF l > 0 THEN l ELSE fresh]
ConfigurationSetDocumentIDs(n, l, fresh) ==
    [n EXCEPT !.documentIds = IF l > 0 THEN l ELSE fresh]

\* CollectionConfiguration.setPushFilter / setPullFilter: [err, obj].
ConfigurationSetPushFilter(n, v) ==
    [err |-> ValueToString(v).err,
     obj |-> IF ValueToString(v).err = NoError
             THEN [n EXCEPT !.pushFilter = ValueToString(v).text] ELSE n]
ConfigurationSetPullFilter(n, v) ==
    [err |-> ValueToString(v).err,
     obj |-> IF ValueToString(v).err = NoError
             THEN [n EXCEPT !.pullFilter = ValueToString(v).text] ELSE n]

\* The texts of number values the caller may pass where a filter is expected.
NumberTexts == {"42"}

\* eval(`(${text})`): a function source evaluates to a function with that
\* source, the text of a number to that number; any other text throws.
EvalFilter(text) ==
    IF text \in FilterSources THEN [ok |-> TRUE, val |-> FunctionValue(text)]
    ELSE IF text \in NumberTexts THEN [ok |-> TRUE, val |-> NumberValue(text)]
    ELSE [ok |-> FALSE, val |-> NullValue]

\* A JavaScript string is truthy unless it is empty (or undefined).
Truthy(s) == s # UNDEF /\ s # ""

(***************************************************************************)
(* Objects the caller holds before constructing a configuration            *)
(***************************************************************************)
\* Collection[] arrays the caller passes to addCollections/removeCollections.
CallerArrays == << <<"users", "orders">> >>

\* string[] arrays of the caller: the arrays of its configs (two each, in the
\* order of the configs below), and one it holds to pass to a setter.
CallerLists ==
    << <<>>, <<>>, <<"public">>, <<"doc1">>,
       <<"public">>, <<>>, <<>>, <<"doc1">>, <<>>, <<>>, <<>>, <<>>,
       <<"vip">> >>

\* CollectionConfig objects of the caller: a fresh one, and one whose
\* setters have been called.
CallerConfigs ==
    << NewCollectionConfig(1, 2),
       [NewCollectionConfig(3, 4) EXCEPT !.pushFilter = "(doc, flags) => true"] >>

\* CollectionConfiguration objects of the caller, one per collection.
CallerConfigurations ==
    << NewCollectionConfiguration("users", 5, 6),
       [NewCollectionConfiguration("orders", 7, 8) EXCEPT
            !.pullFilter = "function (doc, flags) { return false; }"],
       NewCollectionConfiguration("audit", 9, 10),
       NewCollectionConfiguration("remote", 11, 12) >>

\* Header objects of the caller.
CallerHeaders == << << <<"X-Trace", "1">> >> >>

\* The collection-configuration lists handed to the new-API constructor
\* (references into the heap of CollectionConfiguration objects).
ConstructorLists == { <<>>, <<1>>, <<1, 2>>, <<2, 3>>, <<1, 4>> }

\* Arguments of the calls.
ArgCollections == {"users", "orders"}
ArgHeartbeats == {0, -5}
ArgMaxAttempts == {0}
ArgWaitTimes == {-1, 0}
ArgCertificates == {UNDEF, "CERT"}
ArgAuthenticators == {UNDEF} \cup Authenticators

\* string[] arguments of setChannels / setDocumentIDs: null (-1), undefined
\* (0), and the array the caller holds.
ArgChannels == {-1, 0, Len(CallerLists)}
ArgDocumentIDs == {-1, Len(CallerLists)}

\* Arguments of setPushFilter / setPullFilter: a function, and values that
\* are no function.
ArgPushFilters ==
    {FunctionValue("(doc, flags) => true"), NumberValue("42"), StringValue("hello"),
     NullValue}
ArgPullFilters ==
    {FunctionValue("function (doc, flags) { return false; }"), StringValue("")}

\* A setter of a plain field is called with a value other than the current one
\* (an assignment of the current value changes nothing).
Other(values, current) == values \ {current}

(***************************************************************************)
(* ReplicatorConfiguration: constructor                                    *)
(***************************************************************************)
\* The fields every constructed instance gets (lines 119-135), around the
\* schema-specific ones.
Constructed(isNewApi, configurations, target) ==
    [isNewApi |-> isNewApi,
     collectionConfigurations |-> configurations,
     collectionsMap |-> <<>>,
     target |-> target,
     replicatorType |-> "PUSH_AND_PULL",
     continuous |-> defaultContinuous,
     autoPurgeEnabled |-> defaultEnableAutoPurge,
     heartbeat |-> defaultHeartbeat,
     acceptOnlySelfSignedCerts |-> defaultSelfSignedCertificateOnly,
     acceptParentDomainCookies |-> defaultAcceptParentDomainCookies,
     allowReplicatingInBackground |-> defaultAllowReplicatingInBackground,
     maxAttempts |-> defaultMaxAttemptsSingleShot,
     maxAttemptWaitTime |-> defaultMaxAttemptsWaitTime,
     authenticator |-> UNDEF,
     headers |-> 0,
     pinnedServerCertificate |-> UNDEF]

\* Mutant: the constructor without the check of the target.
Constructor_NoTargetCheck(first, target) ==
    IF first.array
    THEN IF Len(first.list) = 0
         THEN [err |-> ErrNoConfigs, obj |-> <<>>]
         ELSE [err |-> NoError, obj |-> Constructed(TRUE, first.list, target)]
    ELSE [err |-> NoError, obj |-> Constructed(FALSE, <<>>, first.target)]

\* new ReplicatorConfiguration(targetOrCollectionConfigs, target).  The first
\* argument is [array |-> TRUE, list |-> ...] or [array |-> FALSE, target |-> ...].
\* The result is [err, obj]; obj is meaningful only when err = NoError.
Constructor(first, target) ==
    IF first.array
    THEN IF Len(first.list) = 0
         THEN [err |-> ErrNoConfigs, obj |-> <<>>]
         ELSE IF target = NoTarget
              THEN [err |-> ErrNoTarget, obj |-> <<>>]
              ELSE [err |-> NoError, obj |-> Constructed(TRUE, first.list, target)]
    ELSE [err |-> NoError, obj |-> Constructed(FALSE, <<>>, first.target)]

\* The constructor calls explored: the new API with every list and with or
\* without a target, the old API with its target.
ConstructorCalls ==
    { <<[array |-> TRUE, list |-> l], t>> :
          l \in ConstructorLists, t \in {TheTarget, NoTarget} }
    \cup { <<[array |-> FALSE, target |-> TheTarget], NoTarget>> }

Init ==
    \E call \in ConstructorCalls :
        LET res == Constructor(call[1], call[2])
        IN  /\ inst = IF res.err = NoError THEN <<res.obj>> ELSE <<>>
            /\ arrays = CallerArrays
            /\ oldCfgs = CallerConfigs
            /\ newCfgs = CallerConfigurations
            /\ hdrs = CallerHeaders
            /\ lists = CallerLists
            /\ indexes = <<>>
            /\ currentCustomToken = -1
            /\ customLogCallbacksMap = <<>>
            /\ calls = <<>>
            /\ native = <<>>
            /\ last = [op |-> "constructor", inst |-> 1, args |-> call,
                       err |-> res.err, ret |-> JUndef, again |-> FALSE]
            /\ nops = 0

\* A call is made: it is recorded, and counted.
Recorded(op, i, args, err, ret) ==
    /\ last' = [op |-> op, inst |-> i, args |-> args, err |-> err, ret |-> ret,
                again |-> (last.op = op /\ last.inst = i /\ last.args = args)]
    /\ nops' = nops + 1

\* A call on a replicator configuration or on one of its objects: no other
\* object is touched.
Called(op, i, args, err, ret) ==
    /\ Recorded(op, i, args, err, ret)
    /\ UNCHANGED unrelated

\* A call may be made on instance i.
MayCall(i) == i \in DOMAIN inst /\ nops < MaxOps

(***************************************************************************)
(* ReplicatorConfiguration: the collections (old API)                      *)
(***************************************************************************)
\* Array.prototype.includes
Includes(arr, c) == \E j \in DOMAIN arr : arr[j] = c

\* collections.filter(c => c !== collection)
Without(arr, c) == SelectSeq(arr, LAMBDA x : x # c)

\* Map.prototype.set: an existing key keeps its place and gets the new value,
\* a new key is appended.  Keys are array objects, compared by identity.
MapSet(m, key, val) ==
    IF \E j \in DOMAIN m : m[j].key = key
    THEN [j \in DOMAIN m |-> IF m[j].key = key THEN [key |-> key, val |-> val] ELSE m[j]]
    ELSE Append(m, [key |-> key, val |-> val])

\* Map.prototype.delete
MapDelete(m, key) == SelectSeq(m, LAMBDA e : e.key # key)

\* Mutant: the sets of the map are flattened newest first.
GetCollectionsIn_NewestFirst(r, arrs) ==
    IF r.isNewApi
    THEN [j \in DOMAIN r.collectionConfigurations |->
              newCfgs[r.collectionConfigurations[j]].collection]
    ELSE LET RECURSIVE Flat(_)
             Flat(m) == IF m = <<>> THEN <<>>
                        ELSE Flat(Tail(m)) \o arrs[Head(m).key]
         IN  Flat(r.collectionsMap)

\* getCollections() of instance r, the Collection[] heap being arrs.
GetCollectionsIn(r, arrs) ==
    IF r.isNewApi
    THEN [j \in DOMAIN r.collectionConfigurations |->
              newCfgs[r.collectionConfigurations[j]].collection]
    ELSE LET RECURSIVE Flat(_)
             Flat(m) == IF m = <<>> THEN <<>>
                        ELSE arrs[Head(m).key] \o Flat(Tail(m))
         IN  Flat(r.collectionsMap)

GetCollections(r) == GetCollectionsIn(r, arrays)

\* Mutant: the entry is deleted by a new array [collection], which is never a
\* key of the map.
RemoveFromMap_DeletesByCopy(m, arrs, c) == MapDelete(m, Len(arrs) + 1)

\* The body of removeCollection on the old API (lines 257-265): the first
\* entry whose key array includes the collection is found; it is deleted if
\* the filtered array is empty, and nothing else is done.
RemoveFromMap(m, arrs, c) ==
    LET hits == {j \in DOMAIN m : Includes(arrs[m[j].key], c)}
    IN  IF hits = {} THEN m
        ELSE LET first == CHOOSE j \in hits : \A h \in hits : j <= h
                 filtered == Without(arrs[m[first].key], c)
             IN  IF Len(filtered) = 0 THEN MapDelete(m, m[first].key) ELSE m

\* The loop of removeCollections (lines 281-283).
RECURSIVE RemoveAllFromMap(_, _, _)
RemoveAllFromMap(m, arrs, cs) ==
    IF cs = <<>> THEN m
    ELSE RemoveAllFromMap(RemoveFromMap(m, arrs, Head(cs)), arrs, Tail(cs))

\* getCollectionConfig on the old API (lines 300-305): the value of the first
\* entry whose key array includes the collection, or undefined (0).
LookupConfig(m, arrs, c) ==
    LET hits == {j \in DOMAIN m : Includes(arrs[m[j].key], c)}
    IN  IF hits = {} THEN 0
        ELSE m[CHOOSE j \in hits : \A h \in hits : j <= h].val

\* The body of addCollection on the old API (line 216): a new array
\* [collection] is the key.  The result is the instance and the array heap.
AddToMap(r, arrs, c, k) ==
    [obj |-> [r EXCEPT !.collectionsMap = MapSet(@, Len(arrs) + 1, k)],
     arrays |-> Append(arrs, <<c>>)]

\* The body of removeCollection on the old API, on the instance.
RemoveFrom(r, arrs, c) == [r EXCEPT !.collectionsMap = RemoveFromMap(@, arrs, c)]

\* Mutant: addCollection without the check of the API.
addCollection_NoGuard(i, c, k) ==
    /\ MayCall(i)
    /\ arrays' = AddToMap(inst[i], arrays, c, k).arrays
    /\ inst' = [inst EXCEPT ![i] = AddToMap(inst[i], arrays, c, k).obj]
    /\ UNCHANGED <<oldCfgs, newCfgs, hdrs, lists>>
    /\ Called("addCollection", i, <<c, k>>, NoError, JUndef)

addCollection(i, c, k) ==
    /\ MayCall(i)
    /\ IF inst[i].isNewApi
       THEN /\ UNCHANGED heap
            /\ Called("addCollection", i, <<c, k>>, ErrProvidedAtConstruction, JUndef)
       ELSE /\ arrays' = AddToMap(inst[i], arrays, c, k).arrays
            /\ inst' = [inst EXCEPT ![i] = AddToMap(inst[i], arrays, c, k).obj]
            /\ UNCHANGED <<oldCfgs, newCfgs, hdrs, lists>>
            /\ Called("addCollection", i, <<c, k>>, NoError, JUndef)

\* Mutant: addCollections without the check of the API.
addCollections_NoGuard(i, a, k) ==
    /\ MayCall(i)
    /\ inst' = [inst EXCEPT ![i].collectionsMap = MapSet(@, a, k)]
    /\ UNCHANGED <<arrays, oldCfgs, newCfgs, hdrs, lists>>
    /\ Called("addCollections", i, <<a, k>>, NoError, JUndef)

addCollections(i, a, k) ==
    /\ MayCall(i)
    /\ IF inst[i].isNewApi
       THEN /\ UNCHANGED heap
            /\ Called("addCollections", i, <<a, k>>, ErrProvidedAtConstruction, JUndef)
       ELSE /\ inst' = [inst EXCEPT ![i].collectionsMap = MapSet(@, a, k)]
            /\ UNCHANGED <<arrays, oldCfgs, newCfgs, hdrs, lists>>
            /\ Called("addCollections", i, <<a, k>>, NoError, JUndef)

removeCollection(i, c) ==
    /\ MayCall(i)
    /\ IF inst[i].isNewApi
       THEN /\ UNCHANGED heap
            /\ Called("removeCollection", i, <<c>>, ErrImmutable, JUndef)
       ELSE /\ inst' = [inst EXCEPT ![i] = RemoveFrom(inst[i], arrays, c)]
            /\ UNCHANGED <<arrays, oldCfgs, newCfgs, hdrs, lists>>
            /\ Called("removeCollection", i, <<c>>, NoError, JUndef)

removeCollections(i, a) ==
    /\ MayCall(i)
    /\ IF inst[i].isNewApi
       THEN /\ UNCHANGED heap
            /\ Called("removeCollections", i, <<a>>, ErrImmutable, JUndef)
       ELSE /\ inst' = [inst EXCEPT ![i].collectionsMap = RemoveAllFromMap(@, arrays, arrays[a])]
            /\ UNCHANGED <<arrays, oldCfgs, newCfgs, hdrs, lists>>
            /\ Called("removeCollections", i, <<a>>, NoError, JUndef)

getCollectionConfig(i, c) ==
    /\ MayCall(i)
    /\ UNCHANGED heap
    /\ IF inst[i].isNewApi
       THEN Called("getCollectionConfig", i, <<c>>, ErrUseGetConfigurations, JUndef)
       ELSE Called("getCollectionConfig", i, <<c>>, NoError,
                   LookupConfig(inst[i].collectionsMap, arrays, c))

getCollections(i) ==
    /\ MayCall(i)
    /\ UNCHANGED heap
    /\ Called("getCollections", i, <<>>, NoError, GetCollections(inst[i]))

(***************************************************************************)
(* ReplicatorConfiguration: the setters of the global fields               *)
(***************************************************************************)
SetAcceptOnlySelfSignedCerts(r, b) == [r EXCEPT !.acceptOnlySelfSignedCerts = b]
SetAcceptParentDomainCookies(r, b) == [r EXCEPT !.acceptParentDomainCookies = b]
SetAllowReplicatingInBackground(r, b) == [r EXCEPT !.allowReplicatingInBackground = b]
SetAutoPurgeEnabled(r, b) == [r EXCEPT !.autoPurgeEnabled = b]
SetAuthenticator(r, a) == [r EXCEPT !.authenticator = a]
SetContinuous(r, b) == [r EXCEPT !.continuous = b]
SetHeaders(r, h) == [r EXCEPT !.headers = h]
SetHeartbeat(r, n) == [r EXCEPT !.heartbeat = n]
SetMaxAttempts(r, n) == [r EXCEPT !.maxAttempts = n]
SetPinnedServerCertificate(r, c) == [r EXCEPT !.pinnedServerCertificate = c]
SetReplicatorType(r, t) == [r EXCEPT !.replicatorType = t]

\* Mutant: setMaxAttemptWaitTime without validation, like setHeartbeat.
SetMaxAttemptWaitTime_NoCheck(r, n) ==
    [err |-> NoError, obj |-> [r EXCEPT !.maxAttemptWaitTime = n]]

\* setMaxAttemptWaitTime throws on a negative value; the result is [err, obj].
SetMaxAttemptWaitTime(r, n) ==
    IF n >= 0
    THEN [err |-> NoError, obj |-> [r EXCEPT !.maxAttemptWaitTime = n]]
    ELSE [err |-> ErrNegativeWait, obj |-> r]

\* A setter call on instance i that leaves the instance as obj.
Assign(op, i, arg, err, obj) ==
    /\ MayCall(i)
    /\ inst' = [inst EXCEPT ![i] = obj]
    /\ UNCHANGED <<arrays, oldCfgs, newCfgs, hdrs, lists>>
    /\ Called(op, i, <<arg>>, err, JUndef)

setAcceptOnlySelfSignedCerts(i, b) ==
    Assign("setAcceptOnlySelfSignedCerts", i, b, NoError,
           SetAcceptOnlySelfSignedCerts(inst[i], b))

setAcceptParentDomainCookies(i, b) ==
    Assign("setAcceptParentDomainCookies", i, b, NoError,
           SetAcceptParentDomainCookies(inst[i], b))

setAllowReplicatingInBackground(i, b) ==
    Assign("setAllowReplicatingInBackground", i, b, NoError,
           SetAllowReplicatingInBackground(inst[i], b))

setAutoPurgeEnabled(i, b) ==
    Assign("setAutoPurgeEnabled", i, b, NoError, SetAutoPurgeEnabled(inst[i], b))

setAuthenticator(i, a) ==
    Assign("setAuthenticator", i, a, NoError, SetAuthenticator(inst[i], a))

setContinuous(i, b) ==
    Assign("setContinuous", i, b, NoError, SetContinuous(inst[i], b))

setHeaders(i, h) ==
    Assign("setHeaders", i, h, NoError, SetHeaders(inst[i], h))

setHeartbeat(i, n) ==
    Assign("setHeartbeat", i, n, NoError, SetHeartbeat(inst[i], n))

setMaxAttempts(i, n) ==
    Assign("setMaxAttempts", i, n, NoError, SetMaxAttempts(inst[i], n))

setMaxAttemptWaitTime(i, n) ==
    Assign("setMaxAttemptWaitTime", i, n,
           SetMaxAttemptWaitTime(inst[i], n).err, SetMaxAttemptWaitTime(inst[i], n).obj)

setPinnedServerCertificate(i, c) ==
    Assign("setPinnedServerCertificate", i, c, NoError,
           SetPinnedServerCertificate(inst[i], c))

setReplicatorType(i, t) ==
    Assign("setReplicatorType", i, t, NoError, SetReplicatorType(inst[i], t))

(***************************************************************************)
(* ReplicatorConfiguration.toJson                                          *)
(***************************************************************************)
\* Mutant: the validation compares the database names only.
ValidateCollectionsScopeAndDatabase_DatabaseOnly(r) ==
    IF Len(r.collectionConfigurations) = 0 THEN FALSE
    ELSE LET firstCollection == newCfgs[r.collectionConfigurations[1]].collection
         IN  \A j \in DOMAIN r.collectionConfigurations :
                 DatabaseName(newCfgs[r.collectionConfigurations[j]].collection)
                     = DatabaseName(firstCollection)

\* validateCollectionsScopeAndDatabase()
ValidateCollectionsScopeAndDatabase(r) ==
    IF Len(r.collectionConfigurations) = 0 THEN FALSE
    ELSE LET firstCollection == newCfgs[r.collectionConfigurations[1]].collection
             expectedDatabaseName == DatabaseName(firstCollection)
             expectedScopeName == ScopeName(firstCollection)
         IN  \A j \in DOMAIN r.collectionConfigurations :
                 LET collection == newCfgs[r.collectionConfigurations[j]].collection
                 IN  ~ (\/ DatabaseName(collection) # expectedDatabaseName
                        \/ ScopeName(collection) # expectedScopeName)

\* Mutant: the record keeps the null it starts with where a field is absent.
BaseConfig_KeepsNull(r) ==
    [acceptParentDomainCookies |-> r.acceptParentDomainCookies,
     acceptSelfSignedCerts |-> r.acceptOnlySelfSignedCerts,
     allowReplicationInBackground |-> r.allowReplicatingInBackground,
     autoPurgeEnabled |-> r.autoPurgeEnabled,
     authenticator |-> IF r.authenticator # UNDEF
                       THEN AuthenticatorToJson(r.authenticator)
                       ELSE JNull,
     collectionConfig |-> JNull,
     continuous |-> r.continuous,
     headers |-> IF r.headers # 0 THEN JObj(hdrs[r.headers]) ELSE JNull,
     heartbeat |-> r.heartbeat,
     maxAttempts |-> r.maxAttempts,
     maxAttemptWaitTime |-> r.maxAttemptWaitTime,
     pinnedServerCertificate |-> IF r.pinnedServerCertificate # UNDEF
                                 THEN JStr(r.pinnedServerCertificate)
                                 ELSE JNull,
     replicatorType |-> r.replicatorType,
     target |-> EndpointToJson(r.target)]

\* The record toJson starts from and fills in (lines 758-796).
BaseConfig(r) ==
    [acceptParentDomainCookies |-> r.acceptParentDomainCookies,
     acceptSelfSignedCerts |-> r.acceptOnlySelfSignedCerts,
     allowReplicationInBackground |-> r.allowReplicatingInBackground,
     autoPurgeEnabled |-> r.autoPurgeEnabled,
     authenticator |-> IF r.authenticator # UNDEF
                       THEN AuthenticatorToJson(r.authenticator)
                       ELSE JStr(""),
     collectionConfig |-> JNull,
     continuous |-> r.continuous,
     headers |-> IF r.headers # 0 THEN JObj(hdrs[r.headers]) ELSE JStr(""),
     heartbeat |-> r.heartbeat,
     maxAttempts |-> r.maxAttempts,
     maxAttemptWaitTime |-> r.maxAttemptWaitTime,
     pinnedServerCertificate |-> IF r.pinnedServerCertificate # UNDEF
                                 THEN JStr(r.pinnedServerCertificate)
                                 ELSE JStr(""),
     replicatorType |-> r.replicatorType,
     target |-> EndpointToJson(r.target)]

\* The record used for a collection set whose config is undefined
\* (lines 866-871).
DefaultConfigJson ==
    JObj(<< <<"channels", JArr(<<>>)>>,
            <<"documentIDs", JArr(<<>>)>>,
            <<"pullFilter", JUndef>>,
            <<"pushFilter", JUndef>> >>)

\* One element of the old API's array (lines 842-877).
OldConfigItem(e, arrs) ==
    LET collections == arrs[e.key]
        collectionsArray ==
            [q \in DOMAIN collections |->
                JObj(<< <<"collection",
                          JObj(<< <<"name", JStr(collections[q])>>,
                                  <<"scopeName", JStr(ScopeName(collections[q]))>>,
                                  <<"databaseName", JStr(DatabaseName(collections[q]))>> >>)>> >>)]
        configJson == IF e.val # 0 THEN CollectionConfigToJson(oldCfgs[e.val])
                      ELSE DefaultConfigJson
    IN  JObj(<< <<"collections", JArr(collectionsArray)>>, <<"config", configJson>> >>)

\* Mutant: the old API's branch without the check for an empty map.
ToJsonIn_NoEmptyCheck(r, arrs) ==
    IF r.isNewApi
    THEN IF ~ ValidateCollectionsScopeAndDatabase(r)
         THEN [err |-> ErrScope, ret |-> JUndef]
         ELSE [err |-> NoError,
               ret |-> [BaseConfig(r) EXCEPT
                          !.collectionConfig =
                              Stringify(JArr([j \in DOMAIN r.collectionConfigurations |->
                                  CollectionConfigurationToJson(
                                      newCfgs[r.collectionConfigurations[j]])]))]]
    ELSE [err |-> NoError,
          ret |-> [BaseConfig(r) EXCEPT
                     !.collectionConfig =
                         Stringify(JArr([j \in DOMAIN r.collectionsMap |->
                             OldConfigItem(r.collectionsMap[j], arrs)]))]]

\* Mutant: the elements are serialized last entry first.
ToJsonIn_LastFirst(r, arrs) ==
    LET Reverse(seq) == [j \in DOMAIN seq |-> seq[Len(seq) + 1 - j]]
    IN  IF r.isNewApi
        THEN IF ~ ValidateCollectionsScopeAndDatabase(r)
             THEN [err |-> ErrScope, ret |-> JUndef]
             ELSE [err |-> NoError,
                   ret |-> [BaseConfig(r) EXCEPT
                              !.collectionConfig =
                                  Stringify(JArr(Reverse(
                                      [j \in DOMAIN r.collectionConfigurations |->
                                          CollectionConfigurationToJson(
                                              newCfgs[r.collectionConfigurations[j]])])))]]
        ELSE IF Len(r.collectionsMap) = 0
             THEN [err |-> ErrNoCollections, ret |-> JUndef]
             ELSE [err |-> NoError,
                   ret |-> [BaseConfig(r) EXCEPT
                              !.collectionConfig =
                                  Stringify(JArr(Reverse(
                                      [j \in DOMAIN r.collectionsMap |->
                                          OldConfigItem(r.collectionsMap[j], arrs)])))]]

\* toJson() of instance r, the Collection[] heap being arrs: [err, ret].
ToJsonIn(r, arrs) ==
    IF r.isNewApi
    THEN IF ~ ValidateCollectionsScopeAndDatabase(r)
         THEN [err |-> ErrScope, ret |-> JUndef]
         ELSE LET collectionConfigArray ==
                      [j \in DOMAIN r.collectionConfigurations |->
                          CollectionConfigurationToJson(newCfgs[r.collectionConfigurations[j]])]
              IN  [err |-> NoError,
                   ret |-> [BaseConfig(r) EXCEPT
                              !.collectionConfig = Stringify(JArr(collectionConfigArray))]]
    ELSE IF Len(r.collectionsMap) = 0
         THEN [err |-> ErrNoCollections, ret |-> JUndef]
         ELSE LET collectionConfigArray ==
                      [j \in DOMAIN r.collectionsMap |-> OldConfigItem(r.collectionsMap[j], arrs)]
              IN  [err |-> NoError,
                   ret |-> [BaseConfig(r) EXCEPT
                              !.collectionConfig = Stringify(JArr(collectionConfigArray))]]

ToJson(r) == ToJsonIn(r, arrays)

\* Mutant: toJson stores the empty-string sentinel in the field it reads.
toJson_StoresSentinel(i) ==
    /\ MayCall(i)
    /\ inst' = [inst EXCEPT ![i].pinnedServerCertificate =
                                IF @ = UNDEF THEN "" ELSE @]
    /\ UNCHANGED <<arrays, oldCfgs, newCfgs, hdrs, lists>>
    /\ Called("toJson", i, <<>>, ToJson(inst[i]).err, ToJson(inst[i]).ret)

\* Mutant: toJson reverses the list of collection configurations in place
\* (Array.prototype.reverse) before serializing it.
toJson_ReversesInPlace(i) ==
    /\ MayCall(i)
    /\ LET list == inst[i].collectionConfigurations
           reversed == [inst[i] EXCEPT !.collectionConfigurations =
                           [j \in DOMAIN list |-> list[Len(list) + 1 - j]]]
       IN  /\ inst' = [inst EXCEPT ![i] = reversed]
           /\ Called("toJson", i, <<>>, ToJson(reversed).err, ToJson(reversed).ret)
    /\ UNCHANGED <<arrays, oldCfgs, newCfgs, hdrs, lists>>

toJson(i) ==
    /\ MayCall(i)
    /\ UNCHANGED heap
    /\ Called("toJson", i, <<>>, ToJson(inst[i]).err, ToJson(inst[i]).ret)

(***************************************************************************)
(* ReplicatorConfiguration.clone                                           *)
(***************************************************************************)
\* The filter text a clone's config gets from the original's text: none when
\* the text is falsy; else the text is evaluated and the value is handed to
\* the clone's setter.  [err, text].
RecreateFilter(text) ==
    IF ~ Truthy(text) THEN [err |-> NoError, text |-> UNDEF]
    ELSE IF EvalFilter(text).ok
         THEN ValueToString(EvalFilter(text).val)
         ELSE [err |-> ErrEval, text |-> UNDEF]

\* Mutant: the list is handed over as it is, not copied.
SpreadRef_NoCopy(l, fresh) == l

\* [...list]: the reference of the copy, a fresh array.
SpreadRef(l, fresh) == fresh

\* The first error of a sequence of errors, or NoError.
FirstError(errs) ==
    IF \A q \in DOMAIN errs : errs[q] = NoError THEN NoError
    ELSE errs[CHOOSE q \in DOMAIN errs :
                 /\ errs[q] # NoError
                 /\ \A p \in 1 .. q - 1 : errs[p] = NoError]

\* Spreading null or undefined throws a TypeError.
SpreadError(l) == IF l > 0 THEN NoError ELSE ErrTypeError

\* The copy of one CollectionConfiguration (lines 655-671), ch and ids being
\* fresh arrays: [err, obj].
CloneConfiguration(n, ch, ids) ==
    LET push == RecreateFilter(n.pushFilter)
        pull == RecreateFilter(n.pullFilter)
        c0 == NewCollectionConfiguration(n.collection, 0, 0)
        c1 == ConfigurationSetChannels(c0, SpreadRef(n.channels, ch), 0)
        c2 == ConfigurationSetDocumentIDs(c1, SpreadRef(n.documentIds, ids), 0)
    IN  [err |-> FirstError(<<SpreadError(n.channels), SpreadError(n.documentIds),
                              push.err, pull.err>>),
         obj |-> [c2 EXCEPT !.pushFilter = push.text, !.pullFilter = pull.text]]

\* The copy of one CollectionConfig (lines 690-704), ch and ids being fresh
\* arrays: [err, obj].
CloneConfig(k, ch, ids) ==
    LET push == RecreateFilter(k.pushFilter)
        pull == RecreateFilter(k.pullFilter)
        c0 == NewCollectionConfig(0, 0)
        c1 == ConfigSetChannels(c0, SpreadRef(k.channels, ch))
        c2 == ConfigSetDocumentIDs(c1, SpreadRef(k.documentIDs, ids))
    IN  [err |-> FirstError(<<SpreadError(k.channels), SpreadError(k.documentIDs),
                              push.err, pull.err>>),
         obj |-> [c2 EXCEPT !.pushFilter = push.text, !.pullFilter = pull.text]]

\* The global fields copied onto the clone (lines 718-735); the headers are
\* a new object, h.  [err, obj].
CopyProperties(r, cloned, h) ==
    LET c1 == SetContinuous(cloned, r.continuous)
        c2 == SetHeaders(c1, h)
        c3 == SetAuthenticator(c2, r.authenticator)
        c4 == SetPinnedServerCertificate(c3, r.pinnedServerCertificate)
        c5 == SetAllowReplicatingInBackground(c4, r.allowReplicatingInBackground)
        c6 == SetAutoPurgeEnabled(c5, r.autoPurgeEnabled)
        c7 == SetAcceptParentDomainCookies(c6, r.acceptParentDomainCookies)
        c8 == SetMaxAttempts(c7, r.maxAttempts)
        c9 == SetMaxAttemptWaitTime(c8, r.maxAttemptWaitTime)
        c10 == SetHeartbeat(c9.obj, r.heartbeat)
        c11 == SetReplicatorType(c10, r.replicatorType)
        c12 == SetAcceptOnlySelfSignedCerts(c11, r.acceptOnlySelfSignedCerts)
    IN  [err |-> c9.err, obj |-> c12]

\* { ...this.getHeaders() }: a new object with the same properties; spreading
\* undefined gives an empty object.
SpreadHeaders(r) == IF r.headers = 0 THEN <<>> ELSE hdrs[r.headers]

\* The number of entries of map m, among the first j, that have a config.
RECURSIVE ConfigsUpTo(_, _)
ConfigsUpTo(m, j) ==
    IF j = 0 THEN 0
    ELSE ConfigsUpTo(m, j - 1) + (IF m[j].val # 0 THEN 1 ELSE 0)

\* The contents of the arrays the copies of the configs get: for each config,
\* in order, its channels and its document IDs (chs and ids are the
\* references the originals hold).
SpreadContents(chs, ids) ==
    [q \in 1 .. 2 * Len(chs) |->
        IF q % 2 = 1 THEN lists[chs[(q + 1) \div 2]] ELSE lists[ids[q \div 2]]]

\* Mutant: the clone's map holds the key arrays of the original.
ClonedMap_SharesKeys(m, nArrays, nCfgs) ==
    [j \in DOMAIN m |->
        [key |-> m[j].key,
         val |-> IF m[j].val # 0 THEN nCfgs + ConfigsUpTo(m, j) ELSE 0]]

\* The collectionsMap of the clone of an old-API instance (lines 685-712):
\* entry by entry, the key a new array (after the nArrays there are) and the
\* value a new config (after the nCfgs there are) or undefined.
ClonedMap(m, nArrays, nCfgs) ==
    [j \in DOMAIN m |->
        [key |-> nArrays + j,
         val |-> IF m[j].val # 0 THEN nCfgs + ConfigsUpTo(m, j) ELSE 0]]

\* clone() of instance r: [err, obj, arrays, oldCfgs, newCfgs, hdrs, lists],
\* the clone and the heaps with the objects it allocated.
Clone(r) ==
    LET newHdrs == Append(hdrs, SpreadHeaders(r))
        h == Len(hdrs) + 1
        failure(e) == [err |-> e, obj |-> r, arrays |-> arrays, oldCfgs |-> oldCfgs,
                       newCfgs |-> newCfgs, hdrs |-> hdrs, lists |-> lists]
    IN  IF r.isNewApi
        THEN LET list == r.collectionConfigurations
                 copies == [j \in DOMAIN list |->
                               CloneConfiguration(newCfgs[list[j]],
                                                  Len(lists) + 2 * j - 1, Len(lists) + 2 * j)]
                 errs == [j \in DOMAIN list |-> copies[j].err]
                 clonedCollectionConfigs == [j \in DOMAIN list |-> Len(newCfgs) + j]
                 made == Constructor([array |-> TRUE, list |-> clonedCollectionConfigs],
                                     r.target)
             IN  IF FirstError(errs) # NoError THEN failure(FirstError(errs))
                 ELSE IF made.err # NoError THEN failure(made.err)
                 ELSE LET done == CopyProperties(r, made.obj, h)
                      IN  [err |-> done.err, obj |-> done.obj, arrays |-> arrays,
                           oldCfgs |-> oldCfgs,
                           newCfgs |-> newCfgs \o [j \in DOMAIN list |-> copies[j].obj],
                           hdrs |-> newHdrs,
                           lists |-> lists \o SpreadContents(
                               [j \in DOMAIN list |-> newCfgs[list[j]].channels],
                               [j \in DOMAIN list |-> newCfgs[list[j]].documentIds])]
        ELSE LET m == r.collectionsMap
                 made == Constructor([array |-> FALSE, target |-> r.target], NoTarget)
                 withConfig == SelectSeq(m, LAMBDA e : e.val # 0)
                 copies == [j \in DOMAIN withConfig |->
                               CloneConfig(oldCfgs[withConfig[j].val],
                                           Len(lists) + 2 * j - 1, Len(lists) + 2 * j)]
                 errs == [j \in DOMAIN copies |-> copies[j].err]
                 clonedMap == ClonedMap(m, Len(arrays), Len(oldCfgs))
                 done == CopyProperties(r, [made.obj EXCEPT !.collectionsMap = clonedMap], h)
             IN  IF FirstError(errs) # NoError THEN failure(FirstError(errs))
                 ELSE [err |-> done.err, obj |-> done.obj,
                       arrays |-> arrays \o [j \in DOMAIN m |-> arrays[m[j].key]],
                       oldCfgs |-> oldCfgs \o [j \in DOMAIN copies |-> copies[j].obj],
                       newCfgs |-> newCfgs,
                       hdrs |-> newHdrs,
                       lists |-> lists \o SpreadContents(
                           [j \in DOMAIN withConfig |-> oldCfgs[withConfig[j].val].channels],
                           [j \in DOMAIN withConfig |-> oldCfgs[withConfig[j].val].documentIDs])]

\* clone(): the clone is a new instance; ret is its reference.
clone(i) ==
    /\ MayCall(i)
    /\ LET res == Clone(inst[i])
       IN  IF res.err # NoError
           THEN /\ UNCHANGED heap
                /\ Called("clone", i, <<>>, res.err, JUndef)
           ELSE /\ inst' = Append(inst, res.obj)
                /\ arrays' = res.arrays
                /\ oldCfgs' = res.oldCfgs
                /\ newCfgs' = res.newCfgs
                /\ hdrs' = res.hdrs
                /\ lists' = res.lists
                /\ Called("clone", i, <<>>, NoError, Len(inst) + 1)

(***************************************************************************)
(* Calls on the objects a configuration hands out                          *)
(***************************************************************************)
\* A call of a CollectionConfig method on getCollectionConfig(c) of instance
\* i, which leaves that config as obj.
ConfigCall(op, i, c, arg, err, obj) ==
    /\ MayCall(i)
    /\ ~ inst[i].isNewApi
    /\ LookupConfig(inst[i].collectionsMap, arrays, c) # 0
    /\ oldCfgs' = [oldCfgs EXCEPT ![LookupConfig(inst[i].collectionsMap, arrays, c)] = obj]
    /\ UNCHANGED <<inst, arrays, newCfgs, hdrs, lists>>
    /\ Called(op, i, <<c, arg>>, err, JUndef)

\* The config getCollectionConfig(c) of instance i returns.
ConfigOf(i, c) == oldCfgs[LookupConfig(inst[i].collectionsMap, arrays, c)]

config_setChannels(i, c, l) ==
    ConfigCall("CollectionConfig.setChannels", i, c, l, NoError,
               ConfigSetChannels(ConfigOf(i, c), l))

config_setDocumentIDs(i, c, l) ==
    ConfigCall("CollectionConfig.setDocumentIDs", i, c, l, NoError,
               ConfigSetDocumentIDs(ConfigOf(i, c), l))

config_setPullFilter(i, c, v) ==
    ConfigCall("CollectionConfig.setPullFilter", i, c, v,
               ConfigSetPullFilter(ConfigOf(i, c), v).err,
               ConfigSetPullFilter(ConfigOf(i, c), v).obj)

config_setPushFilter(i, c, v) ==
    ConfigCall("CollectionConfig.setPushFilter", i, c, v,
               ConfigSetPushFilter(ConfigOf(i, c), v).err,
               ConfigSetPushFilter(ConfigOf(i, c), v).obj)

\* A call of a CollectionConfiguration method on
\* getCollectionConfigurations()[j] of instance i, which leaves that
\* configuration as obj and the heap of lists as ls.
ConfigurationCall(op, i, j, arg, err, obj, ls) ==
    /\ MayCall(i)
    /\ inst[i].isNewApi
    /\ j \in DOMAIN inst[i].collectionConfigurations
    /\ newCfgs' = [newCfgs EXCEPT ![inst[i].collectionConfigurations[j]] = obj]
    /\ lists' = ls
    /\ UNCHANGED <<inst, arrays, oldCfgs, hdrs>>
    /\ Called(op, i, <<j, arg>>, err, JUndef)

\* getCollectionConfigurations()[j] of instance i.
ConfigurationOf(i, j) == newCfgs[inst[i].collectionConfigurations[j]]

\* The heap of lists after `l ?? []`: a new empty array when l is nullish.
NullishAllocates(l) == IF l > 0 THEN lists ELSE Append(lists, <<>>)

configuration_setChannels(i, j, l) ==
    ConfigurationCall("CollectionConfiguration.setChannels", i, j, l, NoError,
                      ConfigurationSetChannels(ConfigurationOf(i, j), l, Len(lists) + 1),
                      NullishAllocates(l))

configuration_setDocumentIDs(i, j, l) ==
    ConfigurationCall("CollectionConfiguration.setDocumentIDs", i, j, l, NoError,
                      ConfigurationSetDocumentIDs(ConfigurationOf(i, j), l, Len(lists) + 1),
                      NullishAllocates(l))

configuration_setPushFilter(i, j, v) ==
    ConfigurationCall("CollectionConfiguration.setPushFilter", i, j, v,
                      ConfigurationSetPushFilter(ConfigurationOf(i, j), v).err,
                      ConfigurationSetPushFilter(ConfigurationOf(i, j), v).obj, lists)

configuration_setPullFilter(i, j, v) ==
    ConfigurationCall("CollectionConfiguration.setPullFilter", i, j, v,
                      ConfigurationSetPullFilter(ConfigurationOf(i, j), v).err,
                      ConfigurationSetPullFilter(ConfigurationOf(i, j), v).obj, lists)

\* The string[] arrays the getters of the configs of instance r return
\* (getChannels(), getDocumentIDs()).
ListsOf(r) ==
    {l \in DOMAIN lists :
        \/ \E j \in DOMAIN r.collectionConfigurations :
               l \in {newCfgs[r.collectionConfigurations[j]].channels,
                      newCfgs[r.collectionConfigurations[j]].documentIds}
        \/ \E j \in DOMAIN r.collectionsMap :
               /\ r.collectionsMap[j].val # 0
               /\ l \in {oldCfgs[r.collectionsMap[j].val].channels,
                         oldCfgs[r.collectionsMap[j].val].documentIDs}}

\* The caller changes, in place, an array a getter of a config of instance i
\* returned: config.getChannels().push("extra").
getChannels_push(i, l) ==
    /\ MayCall(i)
    /\ l \in ListsOf(inst[i])
    /\ lists' = [lists EXCEPT ![l] = Append(@, "extra")]
    /\ UNCHANGED <<inst, arrays, oldCfgs, newCfgs, hdrs>>
    /\ Called("getChannels().push", i, <<l>>, NoError, JUndef)

\* The caller adds an entry to the object getHeaders() returned:
\* config.getHeaders()["X-Extra"] = "1".
getHeaders_put(i) ==
    /\ MayCall(i)
    /\ inst[i].headers # 0
    /\ hdrs' = [hdrs EXCEPT ![inst[i].headers] = Append(@, <<"X-Extra", "1">>)]
    /\ UNCHANGED <<inst, arrays, oldCfgs, newCfgs, lists>>
    /\ Called("getHeaders().put", i, <<>>, NoError, JUndef)

(***************************************************************************)
(* The specification                                                       *)
(***************************************************************************)
Next ==
    \/ \E i \in DOMAIN inst, c \in ArgCollections, k \in 0 .. Len(CallerConfigs) :
           addCollection(i, c, k)
    \/ \E i \in DOMAIN inst, a \in DOMAIN CallerArrays, k \in 0 .. Len(CallerConfigs) :
           addCollections(i, a, k)
    \/ \E i \in DOMAIN inst, c \in ArgCollections : removeCollection(i, c)
    \/ \E i \in DOMAIN inst, a \in DOMAIN CallerArrays : removeCollections(i, a)
    \/ \E i \in DOMAIN inst, c \in ArgCollections : getCollectionConfig(i, c)
    \/ \E i \in DOMAIN inst : getCollections(i)
    \/ \E i \in DOMAIN inst : \E b \in Other(BOOLEAN, inst[i].acceptOnlySelfSignedCerts) :
           setAcceptOnlySelfSignedCerts(i, b)
    \/ \E i \in DOMAIN inst : \E b \in Other(BOOLEAN, inst[i].acceptParentDomainCookies) :
           setAcceptParentDomainCookies(i, b)
    \/ \E i \in DOMAIN inst : \E b \in Other(BOOLEAN, inst[i].allowReplicatingInBackground) :
           setAllowReplicatingInBackground(i, b)
    \/ \E i \in DOMAIN inst : \E b \in Other(BOOLEAN, inst[i].autoPurgeEnabled) :
           setAutoPurgeEnabled(i, b)
    \/ \E i \in DOMAIN inst : \E a \in Other(ArgAuthenticators, inst[i].authenticator) :
           setAuthenticator(i, a)
    \/ \E i \in DOMAIN inst : \E b \in Other(BOOLEAN, inst[i].continuous) :
           setContinuous(i, b)
    \/ \E i \in DOMAIN inst : \E h \in Other(0 .. Len(hdrs), inst[i].headers) :
           setHeaders(i, h)
    \/ \E i \in DOMAIN inst, n \in ArgHeartbeats : setHeartbeat(i, n)
    \/ \E i \in DOMAIN inst, n \in ArgMaxAttempts : setMaxAttempts(i, n)
    \/ \E i \in DOMAIN inst, n \in ArgWaitTimes : setMaxAttemptWaitTime(i, n)
    \/ \E i \in DOMAIN inst : \E c \in Other(ArgCertificates, inst[i].pinnedServerCertificate) :
           setPinnedServerCertificate(i, c)
    \/ \E i \in DOMAIN inst : \E t \in Other(ReplicatorType, inst[i].replicatorType) :
           setReplicatorType(i, t)
    \/ \E i \in DOMAIN inst : toJson(i)
    \/ \E i \in DOMAIN inst : clone(i)

Spec == Init /\ [][Next]_vars

\* The configurations and the objects they hand out: the calls on the
\* per-collection configs, with the calls that attach, copy and serialize
\* them.
ConfigConstructorCalls ==
    { <<[array |-> TRUE, list |-> <<1, 2>>], TheTarget>>,
      <<[array |-> FALSE, target |-> TheTarget], NoTarget>> }

InitConfigs == Init /\ last.args \in ConfigConstructorCalls

NextConfigs ==
    \/ \E i \in DOMAIN inst, c \in ArgCollections, l \in ArgChannels :
           config_setChannels(i, c, l)
    \/ \E i \in DOMAIN inst, c \in ArgCollections, l \in ArgDocumentIDs :
           config_setDocumentIDs(i, c, l)
    \/ \E i \in DOMAIN inst, c \in ArgCollections, v \in ArgPullFilters :
           config_setPullFilter(i, c, v)
    \/ \E i \in DOMAIN inst, c \in ArgCollections, v \in ArgPushFilters :
           config_setPushFilter(i, c, v)
    \/ \E i \in DOMAIN inst, j \in 1 .. 2, l \in ArgChannels :
           configuration_setChannels(i, j, l)
    \/ \E i \in DOMAIN inst, j \in 1 .. 2, l \in ArgDocumentIDs :
           configuration_setDocumentIDs(i, j, l)
    \/ \E i \in DOMAIN inst, j \in 1 .. 2, v \in ArgPushFilters :
           configuration_setPushFilter(i, j, v)
    \/ \E i \in DOMAIN inst, j \in 1 .. 2, v \in ArgPullFilters :
           configuration_setPullFilter(i, j, v)
    \/ \E i \in DOMAIN inst, l \in DOMAIN lists : getChannels_push(i, l)
    \/ \E i \in DOMAIN inst : getHeaders_put(i)
    \/ \E i \in DOMAIN inst, c \in ArgCollections, k \in 0 .. Len(CallerConfigs) :
           addCollection(i, c, k)
    \/ \E i \in DOMAIN inst, c \in ArgCollections : removeCollection(i, c)
    \/ \E i \in DOMAIN inst : \E h \in Other(0 .. Len(hdrs), inst[i].headers) :
           setHeaders(i, h)
    \/ \E i \in DOMAIN inst : \E b \in Other(BOOLEAN, inst[i].continuous) :
           setContinuous(i, b)
    \/ \E i \in DOMAIN inst : toJson(i)
    \/ \E i \in DOMAIN inst : clone(i)

SpecConfigs == InitConfigs /\ [][NextConfigs]_vars

\* Attachment, copy and serialization: the calls that decide what toJson()
\* and clone() give, from every constructor call.
NextSerialize ==
    \/ \E i \in DOMAIN inst, c \in ArgCollections, k \in 0 .. Len(CallerConfigs) :
           addCollection(i, c, k)
    \/ \E i \in DOMAIN inst, a \in DOMAIN CallerArrays, k \in 0 .. Len(CallerConfigs) :
           addCollections(i, a, k)
    \/ \E i \in DOMAIN inst, c \in ArgCollections : removeCollection(i, c)
    \/ \E i \in DOMAIN inst : \E a \in Other(ArgAuthenticators, inst[i].authenticator) :
           setAuthenticator(i, a)
    \/ \E i \in DOMAIN inst : \E h \in Other(0 .. Len(hdrs), inst[i].headers) :
           setHeaders(i, h)
    \/ \E i \in DOMAIN inst : \E c \in Other(ArgCertificates, inst[i].pinnedServerCertificate) :
           setPinnedServerCertificate(i, c)
    \/ \E i \in DOMAIN inst : getHeaders_put(i)
    \/ \E i \in DOMAIN inst : toJson(i)
    \/ \E i \in DOMAIN inst : clone(i)

SpecSerialize == Init /\ [][NextSerialize]_vars

(***************************************************************************)
(* Vector indexes: VectorEncoding, VectorIndexConfiguration, VectorIndex,  *)
(* IndexBuilder.vectorIndex                                                *)
(***************************************************************************)
ErrDimensions == "Vector dimensions must be between 2 and 4096"
ErrCentroids == "Centroids must be at least 1"

\* enum DistanceMetric
DistanceMetrics == {"euclidean", "euclideanSquared", "cosine", "dot"}

\* VectorEncoding.none(), .scalarQuantizer(type), .productQuantizer(s, bits):
\* the scalar quantizer does not keep its type.
EncodingNone == [type |-> "none"]
EncodingScalarQuantizer(type) == [type |-> "SQ"]
EncodingProductQuantizer(subquantizers, bits) ==
    [type |-> "PQ", bits |-> bits, subquantizers |-> subquantizers]

\* VectorEncoding.toJson()
VectorEncodingToJson(e) ==
    IF e.type = "none" THEN [type |-> "none"]
    ELSE IF e.type = "SQ" THEN [type |-> "SQ"]
    ELSE [type |-> "PQ", bits |-> e.bits, subquantizers |-> e.subquantizers]

\* The fields of an object of either class, after its constructor has
\* stored its three arguments.
VectorFields(class, expression, dimensions, centroids) ==
    [class |-> class,
     expression |-> expression,
     dimensions |-> dimensions,
     centroids |-> centroids,
     metric |-> "euclideanSquared",
     encoding |-> EncodingNone,
     minTrainingSize |-> 0,
     maxTrainingSize |-> 0,
     numProbes |-> 0,
     isLazy |-> FALSE]

\* new VectorIndexConfiguration(expression, dimensions, centroids); the
\* result is [err, obj].
NewVectorIndexConfiguration(expression, dimensions, centroids) ==
    IF dimensions < 2 \/ dimensions > 4096
    THEN [err |-> ErrDimensions, obj |-> <<>>]
    ELSE IF centroids < 1
         THEN [err |-> ErrCentroids, obj |-> <<>>]
         ELSE [err |-> NoError,
               obj |-> VectorFields("VectorIndexConfiguration", expression,
                                    dimensions, centroids)]

\* new VectorIndex(expression, dimensions, centroids): the three arguments
\* are stored as they are.
NewVectorIndex(expression, dimensions, centroids) ==
    [err |-> NoError,
     obj |-> VectorFields("VectorIndex", expression, dimensions, centroids)]

\* IndexBuilder.vectorIndex(expression, dimensions, centroids)
IndexBuilderVectorIndex(expression, dimensions, centroids) ==
    NewVectorIndex(expression, dimensions, centroids)

\* toJson() of either class (the two bodies are the same).
VectorToJson(x) ==
    [type |-> "vector",
     expression |-> x.expression,
     dimensions |-> x.dimensions,
     centroids |-> x.centroids,
     metric |-> x.metric,
     encoding |-> VectorEncodingToJson(x.encoding),
     minTrainingSize |-> x.minTrainingSize,
     maxTrainingSize |-> x.maxTrainingSize,
     numProbes |-> x.numProbes,
     isLazy |-> x.isLazy]

\* Arguments of the constructors: <<dimensions, centroids>> at and around the
\* ends of the documented ranges.
ArgExpressions == {"embedding"}
ArgShapes == {<<2, 1>>, <<4096, 100>>, <<1, 1>>, <<4097, 100>>, <<2, 0>>}

\* Arguments of the setters.
ArgMetrics == {"cosine"}
ArgEncodings == {EncodingScalarQuantizer("SQ4"), EncodingProductQuantizer(8, 4)}
ArgSizes == {100}
ArgLazy == {TRUE}

\* A call that concerns vector indexes only: the replicator configurations
\* are untouched.
IndexCalled(op, x, args, err, ret) ==
    /\ nops < MaxOps
    /\ Recorded(op, x, args, err, ret)
    /\ UNCHANGED <<heap, sinks>>

\* A constructor call: a new object is allocated unless it throws.
Allocate(op, args, res) ==
    /\ indexes' = IF res.err = NoError THEN Append(indexes, res.obj) ELSE indexes
    /\ IndexCalled(op, 0, args, res.err,
                   IF res.err = NoError THEN Len(indexes) + 1 ELSE 0)

new_VectorIndexConfiguration(e, d, c) ==
    Allocate("new VectorIndexConfiguration", <<e, d, c>>,
             NewVectorIndexConfiguration(e, d, c))

new_VectorIndex(e, d, c) ==
    Allocate("new VectorIndex", <<e, d, c>>, NewVectorIndex(e, d, c))

vectorIndex(e, d, c) ==
    Allocate("IndexBuilder.vectorIndex", <<e, d, c>>, IndexBuilderVectorIndex(e, d, c))

\* Object x is of the class.
IsOf(x, class) == x \in DOMAIN indexes /\ indexes[x].class = class

\* A setter call on index object x that leaves it as obj.
IndexAssign(op, x, arg, obj) ==
    /\ indexes' = [indexes EXCEPT ![x] = obj]
    /\ IndexCalled(op, x, <<arg>>, NoError, x)

\* The property setters of VectorIndexConfiguration.
set_metric(x, v) ==
    /\ IsOf(x, "VectorIndexConfiguration")
    /\ IndexAssign("metric =", x, v, [indexes[x] EXCEPT !.metric = v])

set_encoding(x, v) ==
    /\ IsOf(x, "VectorIndexConfiguration")
    /\ IndexAssign("encoding =", x, v, [indexes[x] EXCEPT !.encoding = v])

set_minTrainingSize(x, v) ==
    /\ IsOf(x, "VectorIndexConfiguration")
    /\ IndexAssign("minTrainingSize =", x, v, [indexes[x] EXCEPT !.minTrainingSize = v])

set_maxTrainingSize(x, v) ==
    /\ IsOf(x, "VectorIndexConfiguration")
    /\ IndexAssign("maxTrainingSize =", x, v, [indexes[x] EXCEPT !.maxTrainingSize = v])

set_numProbes(x, v) ==
    /\ IsOf(x, "VectorIndexConfiguration")
    /\ IndexAssign("numProbes =", x, v, [indexes[x] EXCEPT !.numProbes = v])

set_isLazy(x, v) ==
    /\ IsOf(x, "VectorIndexConfiguration")
    /\ IndexAssign("isLazy =", x, v, [indexes[x] EXCEPT !.isLazy = v])

\* The setters of VectorIndex (each returns the object).
setMetric(x, v) ==
    /\ IsOf(x, "VectorIndex")
    /\ IndexAssign("setMetric", x, v, [indexes[x] EXCEPT !.metric = v])

setEncoding(x, v) ==
    /\ IsOf(x, "VectorIndex")
    /\ IndexAssign("setEncoding", x, v, [indexes[x] EXCEPT !.encoding = v])

setMinTrainingSize(x, v) ==
    /\ IsOf(x, "VectorIndex")
    /\ IndexAssign("setMinTrainingSize", x, v, [indexes[x] EXCEPT !.minTrainingSize = v])

setMaxTrainingSize(x, v) ==
    /\ IsOf(x, "VectorIndex")
    /\ IndexAssign("setMaxTrainingSize", x, v, [indexes[x] EXCEPT !.maxTrainingSize = v])

setNumProbes(x, v) ==
    /\ IsOf(x, "VectorIndex")
    /\ IndexAssign("setNumProbes", x, v, [indexes[x] EXCEPT !.numProbes = v])

setLazy(x, v) ==
    /\ IsOf(x, "VectorIndex")
    /\ IndexAssign("setLazy", x, v, [indexes[x] EXCEPT !.isLazy = v])

VectorIndexConfiguration_toJson(x) ==
    /\ IsOf(x, "VectorIndexConfiguration")
    /\ UNCHANGED indexes
    /\ IndexCalled("VectorIndexConfiguration.toJson", x, <<>>, NoError,
                   VectorToJson(indexes[x]))

VectorIndex_toJson(x) ==
    /\ IsOf(x, "VectorIndex")
    /\ UNCHANGED indexes
    /\ IndexCalled("VectorIndex.toJson", x, <<>>, NoError, VectorToJson(indexes[x]))

\* No object of any class has been constructed yet.
InitIndexes ==
    /\ inst = <<>>
    /\ arrays = <<>>
    /\ oldCfgs = <<>>
    /\ newCfgs = <<>>
    /\ hdrs = <<>>
    /\ lists = <<>>
    /\ indexes = <<>>
    /\ currentCustomToken = -1
    /\ customLogCallbacksMap = <<>>
    /\ calls = <<>>
    /\ native = <<>>
    /\ last = [op |-> "none", inst |-> 0, args |-> <<>>, err |-> NoError,
               ret |-> JUndef, again |-> FALSE]
    /\ nops = 0

NextIndexes ==
    \/ \E e \in ArgExpressions, a \in ArgShapes : new_VectorIndexConfiguration(e, a[1], a[2])
    \/ \E e \in ArgExpressions, a \in ArgShapes : new_VectorIndex(e, a[1], a[2])
    \/ \E e \in ArgExpressions, a \in ArgShapes : vectorIndex(e, a[1], a[2])
    \/ \E x \in DOMAIN indexes : \E v \in Other(ArgMetrics, indexes[x].metric) :
           set_metric(x, v)
    \/ \E x \in DOMAIN indexes : \E v \in Other(ArgEncodings, indexes[x].encoding) :
           set_encoding(x, v)
    \/ \E x \in DOMAIN indexes : \E v \in Other(ArgSizes, indexes[x].minTrainingSize) :
           set_minTrainingSize(x, v)
    \/ \E x \in DOMAIN indexes : \E v \in Other(ArgSizes, indexes[x].maxTrainingSize) :
           set_maxTrainingSize(x, v)
    \/ \E x \in DOMAIN indexes : \E v \in Other(ArgSizes, indexes[x].numProbes) :
           set_numProbes(x, v)
    \/ \E x \in DOMAIN indexes : \E v \in Other(ArgLazy, indexes[x].isLazy) :
           set_isLazy(x, v)
    \/ \E x \in DOMAIN indexes : \E v \in Other(ArgMetrics, indexes[x].metric) :
           setMetric(x, v)
    \/ \E x \in DOMAIN indexes : \E v \in Other(ArgEncodings, indexes[x].encoding) :
           setEncoding(x, v)
    \/ \E x \in DOMAIN indexes : \E v \in Other(ArgSizes, indexes[x].minTrainingSize) :
           setMinTrainingSize(x, v)
    \/ \E x \in DOMAIN indexes : \E v \in Other(ArgSizes, indexes[x].maxTrainingSize) :
           setMaxTrainingSize(x, v)
    \/ \E x \in DOMAIN indexes : \E v \in Other(ArgSizes, indexes[x].numProbes) :
           setNumProbes(x, v)
    \/ \E x \in DOMAIN indexes : \E v \in Other(ArgLazy, indexes[x].isLazy) :
           setLazy(x, v)
    \/ \E x \in DOMAIN indexes : VectorIndexConfiguration_toJson(x)
    \/ \E x \in DOMAIN indexes : VectorIndex_toJson(x)

SpecIndexes == InitIndexes /\ [][NextIndexes]_vars

(***************************************************************************)
(* LogSinks.setCustom                                                      *)
(*                                                                         *)
(* A token is a positive number (a UUID string); 0 is the empty string and *)
(* -1 is null.  setCustom is an async function: an invocation runs without *)
(* interruption up to its await of the native call, in the parts below, and*)
(* is resumed when the native call has settled.  Invocations that are not  *)
(* awaited by their caller overlap at the await.                           *)
(***************************************************************************)
\* CustomLogSinkConfig | null: domains is optional.
NullConfig == [isNull |-> TRUE]
CustomConfig(level, callback) == [isNull |-> FALSE, level |-> level, callback |-> callback]
CustomConfigFor(level, domains, callback) ==
    [isNull |-> FALSE, level |-> level, domains |-> domains, callback |-> callback]

\* The configs setCustom is called with.
ArgCustomConfigs ==
    {NullConfig, CustomConfig(3, "onWarning"),
     CustomConfigFor(1, <<"REPLICATOR", "NETWORK">>, "onVerbose")}

\* uuid.v4().toString() in invocation c: a token no other invocation gets.
Uuid(c) == c

\* config.domains?.map((d) => d.toString()) || []
DomainsOf(cfg) == IF "domains" \in DOMAIN cfg THEN cfg.domains ELSE <<>>

\* The argument of logsinks_SetCustom in the invocation call.
Request(call) ==
    IF call.config.isNull
    THEN [level |-> -1, domains |-> <<>>, token |-> 0]
    ELSE [level |-> call.config.level, domains |-> DomainsOf(call.config),
          token |-> call.token]

\* Mutant: the callback of the logger in place stays in the map.
ClearExisting_KeepsCallback(m, current) == m

\* if (this.currentCustomToken) engine.customLogCallbacksMap.delete(...)
ClearExisting(m, current) == IF current > 0 THEN MapDelete(m, current) ELSE m

\* Mutant: the native call of an enabling invocation is issued before the
\* callback is registered.
MayIssue_BeforeRegistering(call) == call.pc = "cleared"

\* The native call is the last thing before the await: on the disable path
\* after the clearing, on the enable path after the registration.
MayIssue(call) ==
    IF call.config.isNull THEN call.pc = "cleared" ELSE call.pc = "registered"

\* Mutant: the catch block only resets the token.
Catch_KeepsCallback(call, m, current) == [map |-> m, token |-> -1]

\* What a rejected native call leaves: the catch block of the enable path
\* deletes the invocation's token and resets currentCustomToken; the disable
\* path has no handler.
Catch(call, m, current) ==
    IF call.config.isNull
    THEN [map |-> m, token |-> current]
    ELSE [map |-> MapDelete(m, call.token), token |-> -1]

\* The native call invocation c awaits settles as state.
Settle(c, state) ==
    [k \in DOMAIN native |->
        IF native[k].by = c THEN [native[k] EXCEPT !.state = state] ELSE native[k]]

\* An invocation is in its synchronous part: JavaScript runs no other code.
Running == \E c \in DOMAIN calls : calls[c].pc \in {"cleared", "registered"}

\* Every invocation has completed.
Settled == \A c \in DOMAIN calls : calls[c].pc \in {"done", "failed"}

\* setCustom(cfg) is called: the existing logger is cleared (lines 112-118 for
\* null, 127-132 otherwise).
setCustom(cfg) ==
    /\ Len(calls) < MaxOps
    /\ ~ Running
    /\ customLogCallbacksMap' = ClearExisting(customLogCallbacksMap, currentCustomToken)
    /\ currentCustomToken' = IF cfg.isNull /\ currentCustomToken > 0
                             THEN -1 ELSE currentCustomToken
    /\ calls' = Append(calls, [config |-> cfg, token |-> 0, pc |-> "cleared"])
    /\ UNCHANGED <<native, heap, indexes, last, nops>>

\* The same call by a caller that awaits each call before the next.
setCustom_awaited(cfg) ==
    /\ Settled
    /\ setCustom(cfg)

\* Lines 134-140: a token is generated, the callback is put in the map under
\* it, and the token becomes the current one.
setCustom_register(c) ==
    /\ c \in DOMAIN calls
    /\ calls[c].pc = "cleared"
    /\ ~ calls[c].config.isNull
    /\ customLogCallbacksMap' =
           MapSet(customLogCallbacksMap, Uuid(c), calls[c].config.callback)
    /\ currentCustomToken' = Uuid(c)
    /\ calls' = [calls EXCEPT ![c].token = Uuid(c), ![c].pc = "registered"]
    /\ UNCHANGED <<native, heap, indexes, last, nops>>

\* Lines 121-125 and 143-150: the native call is issued and the invocation is
\* suspended at its await.
setCustom_native(c) ==
    /\ c \in DOMAIN calls
    /\ MayIssue(calls[c])
    /\ native' = Append(native, [by |-> c, args |-> Request(calls[c]),
                                  state |-> "pending"])
    /\ calls' = [calls EXCEPT ![c].pc = "awaiting"]
    /\ UNCHANGED <<currentCustomToken, customLogCallbacksMap, heap, indexes, last, nops>>

\* The native call succeeds: the invocation returns.
native_resolve(c) ==
    /\ c \in DOMAIN calls
    /\ calls[c].pc = "awaiting"
    /\ ~ Running
    /\ native' = Settle(c, "fulfilled")
    /\ calls' = [calls EXCEPT ![c].pc = "done"]
    /\ UNCHANGED <<currentCustomToken, customLogCallbacksMap, heap, indexes, last, nops>>

\* The native call fails: the error reaches the caller, through the catch
\* block on the enable path (lines 151-156).
native_reject(c) ==
    /\ c \in DOMAIN calls
    /\ calls[c].pc = "awaiting"
    /\ ~ Running
    /\ customLogCallbacksMap' =
           Catch(calls[c], customLogCallbacksMap, currentCustomToken).map
    /\ currentCustomToken' =
           Catch(calls[c], customLogCallbacksMap, currentCustomToken).token
    /\ native' = Settle(c, "rejected")
    /\ calls' = [calls EXCEPT ![c].pc = "failed"]
    /\ UNCHANGED <<heap, indexes, last, nops>>

\* Overlapping invocations.
NextSinks ==
    \/ \E cfg \in ArgCustomConfigs : setCustom(cfg)
    \/ \E c \in DOMAIN calls : setCustom_register(c)
    \/ \E c \in DOMAIN calls : setCustom_native(c)
    \/ \E c \in DOMAIN calls : native_resolve(c)
    \/ \E c \in DOMAIN calls : native_reject(c)

SpecSinks == InitIndexes /\ [][NextSinks]_vars

\* Invocations made one after another.
NextSinksAwaited ==
    \/ \E cfg \in ArgCustomConfigs : setCustom_awaited(cfg)
    \/ \E c \in DOMAIN calls : setCustom_register(c)
    \/ \E c \in DOMAIN calls : setCustom_native(c)
    \/ \E c \in DOMAIN calls : native_resolve(c)
    \/ \E c \in DOMAIN calls : native_reject(c)

SpecSinksAwaited == InitIndexes /\ [][NextSinksAwaited]_vars

(***************************************************************************)
(* Properties                                                              *)
(***************************************************************************)
\* The step is a call of op (every call is counted).
IsCall(op) == nops' = nops + 1 /\ last'.op = op

\* The entries of map m whose key array includes c.
EntriesWith(m, arrs, c) == {j \in DOMAIN m : Includes(arrs[m[j].key], c)}

\* C1: on the old API, removeCollection(c), c being in one attached set that
\* has other members too, leaves c detached, the other members attached with
\* the same config, and the set's original array as it was.
C1_RemoveReplacesSetByFilteredCopy ==
    [][ (/\ IsCall("removeCollection")
         /\ ~ inst[last'.inst].isNewApi
         /\ LET m == inst[last'.inst].collectionsMap
                hits == EntriesWith(m, arrays, last'.args[1])
            IN  /\ Cardinality(hits) = 1
                /\ \A j \in hits : Len(Without(arrays[m[j].key], last'.args[1])) > 0)
        => LET i == last'.inst
               c == last'.args[1]
               m == inst[i].collectionsMap
               j == CHOOSE j \in EntriesWith(m, arrays, c) : TRUE
               others == Without(arrays[m[j].key], c)
           IN  /\ ~ Includes(GetCollectionsIn(inst'[i], arrays'), c)
               /\ \A q \in DOMAIN others :
                      /\ Includes(GetCollectionsIn(inst'[i], arrays'), others[q])
                      /\ LookupConfig(inst'[i].collectionsMap, arrays', others[q]) = m[j].val
               /\ arrays'[m[j].key] = arrays[m[j].key] ]_vars

\* C2: on the old API, addCollection(A, cfg) then removeCollection(A), A not
\* being attached before, gives back the map, getCollections() and the
\* outcome of toJson() of the state before.
C2_AddThenRemoveRestores ==
    \A i \in DOMAIN inst :
        ~ inst[i].isNewApi =>
            \A c \in ArgCollections, k \in 0 .. Len(oldCfgs) :
                ~ Includes(GetCollections(inst[i]), c) =>
                    LET added == AddToMap(inst[i], arrays, c, k)
                        removed == RemoveFrom(added.obj, added.arrays, c)
                    IN  /\ Includes(GetCollectionsIn(added.obj, added.arrays), c)
                        /\ removed.collectionsMap = inst[i].collectionsMap
                        /\ GetCollectionsIn(removed, added.arrays) = GetCollections(inst[i])
                        /\ ToJsonIn(removed, added.arrays) = ToJson(inst[i])

\* A removeCollection(A) has just dropped the set [A] an addCollection(A, ..)
\* had attached, while another set stays attached.
C2_Witness ==
    /\ last.op = "removeCollection"
    /\ last.err = NoError
    /\ ~ inst[last.inst].isNewApi
    /\ inst[last.inst].collectionsMap # <<>>
    /\ ~ Includes(GetCollections(inst[last.inst]), last.args[1])
    /\ \E a \in DOMAIN arrays :
           /\ a > Len(CallerArrays)
           /\ arrays[a] = <<last.args[1]>>
           /\ \A j \in DOMAIN inst[last.inst].collectionsMap :
                  inst[last.inst].collectionsMap[j].key # a

OldApiCalls ==
    {"addCollection", "addCollections", "removeCollection", "removeCollections",
     "getCollectionConfig"}

\* C3: on a new-API instance every call of addCollection, addCollections,
\* removeCollection, removeCollections and getCollectionConfig fails, and
\* changes nothing.
C3_OldApiCallsFailOnNewApi ==
    [][ (/\ nops' = nops + 1
         /\ last'.op \in OldApiCalls
         /\ inst[last'.inst].isNewApi)
        => /\ last'.err \in {ErrProvidedAtConstruction, ErrImmutable, ErrUseGetConfigurations}
           /\ heap' = heap ]_vars

\* A removeCollections call has failed on a new-API instance.
C3_Witness ==
    /\ last.op = "removeCollections"
    /\ inst[last.inst].isNewApi
    /\ last.err = ErrImmutable

\* C4: the two storages never mix (a new-API instance has an empty
\* collectionsMap, an old-API instance an empty list of collection
\* configurations), no call changes isNewApi, and a clone has the isNewApi of
\* its original.
C4_SchemaIsFixed ==
    /\ [](\A i \in DOMAIN inst :
              /\ inst[i].isNewApi => inst[i].collectionsMap = <<>>
              /\ ~ inst[i].isNewApi => inst[i].collectionConfigurations = <<>>)
    /\ [][ /\ \A i \in DOMAIN inst :
                  i \in DOMAIN inst' /\ inst'[i].isNewApi = inst[i].isNewApi
           /\ (IsCall("clone") /\ last'.err = NoError)
                  => /\ last'.ret = Len(inst) + 1
                     /\ DOMAIN inst' = 1 .. last'.ret
                     /\ inst'[last'.ret].isNewApi = inst[last'.inst].isNewApi ]_vars

\* An old-API instance with an attached set has been cloned, and an old-API
\* call has been made on a clone.
C4_Witness ==
    /\ Len(inst) = 2
    /\ ~ inst[1].isNewApi
    /\ inst[1].collectionsMap # <<>>
    /\ inst[2].collectionsMap # <<>>
    /\ last.op \in OldApiCalls
    /\ last.inst = 2

\* Some collection of the new-API instance r differs from the first in its
\* database or in its scope.
Heterogeneous(r) ==
    LET cs == GetCollections(r)
    IN  \E j \in DOMAIN cs :
            DatabaseName(cs[j]) # DatabaseName(cs[1]) \/ ScopeName(cs[j]) # ScopeName(cs[1])

\* C5: on the new API toJson() fails with the scope error exactly when some
\* collection differs from the first in database or scope, it returns nothing
\* then, and it succeeds otherwise; the constructor accepts such a list.
C5_ScopeMismatchAtSerialize ==
    /\ \A i \in DOMAIN inst :
           inst[i].isNewApi =>
               /\ ToJson(inst[i]).err = ErrScope <=> Heterogeneous(inst[i])
               /\ Heterogeneous(inst[i]) => ToJson(inst[i]).ret = JUndef
               /\ ~ Heterogeneous(inst[i]) =>
                      /\ ToJson(inst[i]).err = NoError
                      /\ ToJson(inst[i]).ret # JUndef
    /\ (last.op = "toJson" /\ inst[last.inst].isNewApi) =>
           /\ last.err = ErrScope <=> Heterogeneous(inst[last.inst])
           /\ last.err = NoError <=> last.ret # JUndef
    /\ (/\ last.op = "constructor"
        /\ last.args[1].array
        /\ last.args[1].list # <<>>
        /\ last.args[2] # NoTarget) => last.err = NoError /\ Len(inst) = 1

\* toJson() has failed on an instance whose collections share the database
\* and differ in the scope.
C5_Witness ==
    /\ last.op = "toJson"
    /\ last.err = ErrScope
    /\ last.ret = JUndef
    /\ LET cs == GetCollections(inst[last.inst])
       IN  /\ \A j \in DOMAIN cs : DatabaseName(cs[j]) = DatabaseName(cs[1])
           /\ \E j \in DOMAIN cs : ScopeName(cs[j]) # ScopeName(cs[1])

\* C6: on the old API toJson() fails with the no-collections error when the
\* map is empty, and succeeds when it is not.
C6_NoCollectionsAtSerialize ==
    /\ \A i \in DOMAIN inst :
           ~ inst[i].isNewApi =>
               /\ inst[i].collectionsMap = <<>> =>
                      /\ ToJson(inst[i]).err = ErrNoCollections
                      /\ ToJson(inst[i]).ret = JUndef
               /\ inst[i].collectionsMap # <<>> =>
                      /\ ToJson(inst[i]).err = NoError
                      /\ ToJson(inst[i]).ret # JUndef
    /\ (last.op = "toJson" /\ ~ inst[last.inst].isNewApi) =>
           /\ last.err = ErrNoCollections <=> inst[last.inst].collectionsMap = <<>>
           /\ last.err = NoError <=> inst[last.inst].collectionsMap # <<>>

\* toJson() has failed on an old-API instance whose only set had been added
\* and removed again.
C6_Witness ==
    /\ last.op = "toJson"
    /\ last.err = ErrNoCollections
    /\ ~ inst[last.inst].isNewApi
    /\ Len(arrays) > Len(CallerArrays)

\* C7: the new-API constructor fails when the list is empty or the target is
\* absent, and then there is no instance; otherwise it succeeds, and the
\* instance is a new-API one with that list and target.
C7_ConstructorValidates ==
    (last.op = "constructor" /\ last.args[1].array) =>
        /\ last.err # NoError <=>
               (Len(last.args[1].list) = 0 \/ last.args[2] = NoTarget)
        /\ last.err # NoError => inst = <<>>
        /\ last.err = NoError =>
               /\ Len(inst) = 1
               /\ inst[1].isNewApi
               /\ inst[1].collectionConfigurations = last.args[1].list
               /\ inst[1].target = last.args[2]

\* The constructor has failed for a non-empty list without a target.
C7_Witness ==
    /\ last.op = "constructor"
    /\ last.args[1].array
    /\ last.args[1].list # <<>>
    /\ last.args[2] = NoTarget
    /\ last.err = ErrNoTarget
    /\ inst = <<>>

\* C8: setMaxAttemptWaitTime(n) fails for n < 0 and changes nothing, stores n
\* for n >= 0; maxAttemptWaitTime is never negative, in clones too.
C8_MaxAttemptWaitTimeNeverNegative ==
    /\ [](\A i \in DOMAIN inst : inst[i].maxAttemptWaitTime >= 0)
    /\ [][ IsCall("setMaxAttemptWaitTime")
           => IF last'.args[1] < 0
              THEN last'.err = ErrNegativeWait /\ heap' = heap
              ELSE /\ last'.err = NoError
                   /\ inst'[last'.inst].maxAttemptWaitTime = last'.args[1] ]_vars

\* setMaxAttemptWaitTime(-1) has failed on an instance that keeps the default.
C8_Witness ==
    /\ last.op = "setMaxAttemptWaitTime"
    /\ last.args[1] = -1
    /\ last.err = ErrNegativeWait
    /\ inst[last.inst].maxAttemptWaitTime = defaultMaxAttemptsWaitTime

\* C9: toJson() changes nothing, whether it succeeds or fails.
C9_ToJsonIsReadOnly ==
    [][ IsCall("toJson") => heap' = heap ]_vars

\* toJson() has failed on an instance whose fields a setter had changed.
C9_Witness ==
    /\ last.op = "toJson"
    /\ last.err # NoError
    /\ inst[last.inst].pinnedServerCertificate # UNDEF

\* C10: toJson() called twice in a row on an instance gives the same outcome
\* and the same record.
C10_ToJsonTwiceSame ==
    [][ (/\ IsCall("toJson")
         /\ last.op = "toJson"
         /\ last.inst = last'.inst)
        => last'.err = last.err /\ last'.ret = last.ret ]_vars

\* toJson() has succeeded twice in a row on an instance with two collections.
C10_Witness ==
    /\ last.op = "toJson"
    /\ last.again
    /\ last.err = NoError
    /\ Len(GetCollections(inst[last.inst])) = 2

(***************************************************************************)
(* The serialized collectionConfig                                         *)
(***************************************************************************)
\* The value of property key of the decoded object obj; undefined when the
\* object has no such property.
Prop(obj, key) ==
    IF \E q \in DOMAIN obj.v : obj.v[q][1] = key
    THEN obj.v[CHOOSE q \in DOMAIN obj.v : obj.v[q][1] = key][2]
    ELSE JUndef

\* The keys of the decoded object obj.
Keys(obj) == {obj.v[q][1] : q \in DOMAIN obj.v}

\* The decoded collectionConfig of a successful toJson(), as a sequence of
\* elements; empty when toJson() fails.
Decoded(out) == IF out.err = NoError THEN out.ret.collectionConfig.v ELSE <<>>

\* The names of the collections the decoded element el describes, in order.
NamesOf(el) ==
    IF "collection" \in Keys(el)
    THEN <<Prop(Prop(el, "collection"), "name").v>>
    ELSE LET cs == Prop(el, "collections").v
         IN  [q \in DOMAIN cs |-> Prop(Prop(cs[q], "collection"), "name").v]

\* The names of the collections of each element of toJson()'s collectionConfig.
SerializedNames(r, arrs) ==
    [j \in DOMAIN Decoded(ToJsonIn(r, arrs)) |-> NamesOf(Decoded(ToJsonIn(r, arrs))[j])]

\* C11: a successful toJson() gives one element per attached entry, the j-th
\* element describing the j-th entry: the j-th collection configuration of
\* the list given at construction (new API), the j-th collection set of the
\* map (old API), with the channels of its config.  On the old API a set
\* attached under a new key comes last, after the elements there were, and a
\* set attached again keeps its place.
C11_SerializedInAttachmentOrder ==
    /\ [](\A i \in DOMAIN inst :
              LET out == ToJson(inst[i])
                  cc == Decoded(out)
                  list == inst[i].collectionConfigurations
                  m == inst[i].collectionsMap
              IN  out.err = NoError =>
                      IF inst[i].isNewApi
                      THEN /\ Len(cc) = Len(list)
                           /\ \A j \in DOMAIN list :
                                  /\ NamesOf(cc[j]) = <<newCfgs[list[j]].collection>>
                                  /\ Prop(Prop(cc[j], "config"), "channels")
                                         = JList(newCfgs[list[j]].channels, lists)
                      ELSE /\ Len(cc) = Len(m)
                           /\ \A j \in DOMAIN m :
                                  /\ NamesOf(cc[j]) = arrays[m[j].key]
                                  /\ m[j].val # 0 =>
                                         Prop(Prop(cc[j], "config"), "channels")
                                             = Stringify(JList(oldCfgs[m[j].val].channels, lists)))
    /\ [][ /\ (IsCall("addCollection") /\ last'.err = NoError) =>
                  SerializedNames(inst'[last'.inst], arrays')
                      = Append(SerializedNames(inst[last'.inst], arrays), <<last'.args[1]>>)
           /\ (IsCall("addCollections") /\ last'.err = NoError) =>
                  SerializedNames(inst'[last'.inst], arrays')
                      = IF \E j \in DOMAIN inst[last'.inst].collectionsMap :
                               inst[last'.inst].collectionsMap[j].key = last'.args[1]
                        THEN SerializedNames(inst[last'.inst], arrays)
                        ELSE Append(SerializedNames(inst[last'.inst], arrays),
                                    arrays[last'.args[1]]) ]_vars

\* toJson() has succeeded on an old-API instance with the sets [users] and
\* [orders], attached in this order, which is not the order of the names.
C11_Witness ==
    /\ last.op = "toJson"
    /\ last.err = NoError
    /\ ~ inst[last.inst].isNewApi
    /\ [j \in DOMAIN last.ret.collectionConfig.v |-> NamesOf(last.ret.collectionConfig.v[j])]
           = << <<"users">>, <<"orders">> >>

\* The keys of the config record of every element of a collectionConfig.
ConfigKeys == {"channels", "documentIds", "pushFilter", "pullFilter"}

\* The push and pull filter texts of the j-th attached entry of instance r
\* (undefined for a set without a config).
FiltersOfEntry(r, j) ==
    IF r.isNewApi
    THEN <<newCfgs[r.collectionConfigurations[j]].pushFilter,
           newCfgs[r.collectionConfigurations[j]].pullFilter>>
    ELSE IF r.collectionsMap[j].val = 0 THEN <<UNDEF, UNDEF>>
         ELSE <<oldCfgs[r.collectionsMap[j].val].pushFilter,
                oldCfgs[r.collectionsMap[j].val].pullFilter>>

\* C12: in the decoded collectionConfig of a successful toJson(), on both
\* APIs, the config record of every element has exactly the keys channels,
\* documentIds, pushFilter and pullFilter, and a filter that was never set is
\* null.
C12_ConfigRecordKeysAndNullFilters ==
    \A i \in DOMAIN inst :
        ToJson(inst[i]).err = NoError =>
            \A j \in DOMAIN Decoded(ToJson(inst[i])) :
                LET config == Prop(Decoded(ToJson(inst[i]))[j], "config")
                IN  /\ Keys(config) = ConfigKeys
                    /\ FiltersOfEntry(inst[i], j)[1] = UNDEF =>
                           Prop(config, "pushFilter") = JNull
                    /\ FiltersOfEntry(inst[i], j)[2] = UNDEF =>
                           Prop(config, "pullFilter") = JNull

(***************************************************************************)
(* clone()                                                                 *)
(***************************************************************************)
\* The step is a clone() that succeeds.
IsClone == IsCall("clone") /\ last'.err = NoError

\* The values the getters of the global fields of instance r return; the
\* headers object by its properties.
Getters(r) ==
    [continuous |-> r.continuous,
     replicatorType |-> r.replicatorType,
     heartbeat |-> r.heartbeat,
     maxAttempts |-> r.maxAttempts,
     maxAttemptWaitTime |-> r.maxAttemptWaitTime,
     authenticator |-> r.authenticator,
     headers |-> IF r.headers = 0 THEN JUndef ELSE JObj(hdrs[r.headers]),
     pinnedServerCertificate |-> r.pinnedServerCertificate,
     allowReplicatingInBackground |-> r.allowReplicatingInBackground,
     acceptOnlySelfSignedCerts |-> r.acceptOnlySelfSignedCerts,
     acceptParentDomainCookies |-> r.acceptParentDomainCookies,
     autoPurgeEnabled |-> r.autoPurgeEnabled]

\* C13: a clone has the global fields of its original: every getter of a
\* global field returns the same value on both, and the base records of
\* their serializations are the same, whatever the original's state.
C13_CloneCopiesGlobalFields ==
    [][ IsClone =>
            LET i == last'.inst
            IN  /\ (Getters(inst[last.ret]))' = Getters(inst[i])
                /\ (BaseConfig(inst[last.ret]))' = BaseConfig(inst[i]) ]_vars

\* The per-collection configs of instance r as their getters show them: the
\* arrays by their elements.
ConfigsOf(r) ==
    IF r.isNewApi
    THEN [j \in DOMAIN r.collectionConfigurations |->
            LET n == newCfgs[r.collectionConfigurations[j]]
            IN  [collection |-> n.collection,
                 channels |-> JList(n.channels, lists),
                 documentIds |-> JList(n.documentIds, lists),
                 pushFilter |-> n.pushFilter,
                 pullFilter |-> n.pullFilter]]
    ELSE [j \in DOMAIN r.collectionsMap |->
            LET e == r.collectionsMap[j]
            IN  IF e.val = 0
                THEN [collections |-> arrays[e.key], config |-> FALSE]
                ELSE [collections |-> arrays[e.key], config |-> TRUE,
                      channels |-> JList(oldCfgs[e.val].channels, lists),
                      documentIds |-> JList(oldCfgs[e.val].documentIDs, lists),
                      pushFilter |-> oldCfgs[e.val].pushFilter,
                      pullFilter |-> oldCfgs[e.val].pullFilter]]

\* All that can be observed of instance r: the results of its getters, those
\* of its configs, and the outcome of toJson().
Observe(r) ==
    [getters |-> Getters(r),
     collections |-> GetCollections(r),
     configs |-> ConfigsOf(r),
     json |-> ToJson(r)]

\* C14: a clone shares no object that can be changed with its original (its
\* headers object, its configs, their arrays and its key arrays are new
\* objects), and the call that follows a clone(), made on the clone or on an
\* object the clone hands out, leaves all that can be observed of the
\* original as it was, and the other way round.
C14_CloneIsIndependent ==
    [][ /\ IsClone =>
               /\ inst'[last'.ret].headers > Len(hdrs)
               /\ \A j \in DOMAIN inst'[last'.ret].collectionConfigurations :
                      inst'[last'.ret].collectionConfigurations[j] > Len(newCfgs)
               /\ \A j \in DOMAIN inst'[last'.ret].collectionsMap :
                      /\ inst'[last'.ret].collectionsMap[j].key > Len(arrays)
                      /\ inst'[last'.ret].collectionsMap[j].val # 0 =>
                             inst'[last'.ret].collectionsMap[j].val > Len(oldCfgs)
               /\ \A l \in (ListsOf(inst[last.ret]))' : l > Len(lists)
        /\ \A o, c \in DOMAIN inst :
               (/\ last.op = "clone"
                /\ last.err = NoError
                /\ last.inst = o
                /\ last.ret = c
                /\ nops' = nops + 1)
               => /\ last'.inst = c => (Observe(inst[o]))' = Observe(inst[o])
                  /\ last'.inst = o => (Observe(inst[c]))' = Observe(inst[c]) ]_vars

\* An element has been pushed onto the channels array of the first config of
\* a clone, and the original's array is as it was.
C14_Witness ==
    /\ last.op = "getChannels().push"
    /\ last.inst = 2
    /\ Len(inst) = 2
    /\ ConfigsOf(inst[1]) # <<>>
    /\ ConfigsOf(inst[2])[1].channels # ConfigsOf(inst[1])[1].channels
    /\ ConfigsOf(inst[2])[1].channels.t = "array"
    /\ ConfigsOf(inst[1])[1].channels.t = "array"
    /\ Len(ConfigsOf(inst[2])[1].channels.v) = Len(ConfigsOf(inst[1])[1].channels.v) + 1

\* C15: a clone has the collections of its original, in the same order; on
\* the old API its map has, entry by entry, a new key array with the members
\* of the original's, and a config exactly where the original has one; the
\* original's arrays are left as they were.
C15_ClonePreservesCollections ==
    [][ IsClone =>
            LET i == last'.inst
                m == inst[i].collectionsMap
                cloned == inst'[last'.ret].collectionsMap
            IN  /\ (GetCollections(inst[last.ret]))' = GetCollections(inst[i])
                /\ \A a \in DOMAIN arrays : arrays'[a] = arrays[a]
                /\ ~ inst[i].isNewApi =>
                       /\ Len(cloned) = Len(m)
                       /\ \A j \in DOMAIN m :
                              /\ cloned[j].key \in DOMAIN arrays' \ DOMAIN arrays
                              /\ arrays'[cloned[j].key] = arrays[m[j].key]
                              /\ cloned[j].val = 0 <=> m[j].val = 0
                       /\ \A j, q \in DOMAIN m : j # q => cloned[j].key # cloned[q].key ]_vars

\* An old-API instance with two sets, [users, orders] without a config and
\* another with a config, has been cloned.
C15_Witness ==
    /\ last.op = "clone"
    /\ last.err = NoError
    /\ ~ inst[last.inst].isNewApi
    /\ Len(inst[last.ret].collectionsMap) = 2
    /\ \E j \in 1 .. 2 :
           /\ inst[last.ret].collectionsMap[j].val = 0
           /\ arrays[inst[last.ret].collectionsMap[j].key] = <<"users", "orders">>
    /\ \E j \in 1 .. 2 : inst[last.ret].collectionsMap[j].val # 0

\* The attached entries of instance r.
Entries(r) ==
    IF r.isNewApi THEN DOMAIN r.collectionConfigurations ELSE DOMAIN r.collectionsMap

\* The stored filter texts of instance r.
StoredFilters(r) ==
    {FiltersOfEntry(r, j)[q] : j \in Entries(r), q \in 1 .. 2} \ {UNDEF}

\* C16: clone() fails, changing nothing, when a stored filter text of the
\* original is not the source of a predicate; a clone that is made has, for
\* every config, a push (pull) filter exactly when the original has one, with
\* the same text.
C16_ClonePreservesFilters ==
    [][ IsCall("clone") =>
            LET i == last'.inst
            IN  /\ (\E text \in StoredFilters(inst[i]) : text \notin FilterSources)
                       => (last'.err # NoError /\ heap' = heap)
                /\ last'.err = NoError =>
                       \A j \in Entries(inst[i]) :
                           (FiltersOfEntry(inst[last.ret], j))' = FiltersOfEntry(inst[i], j) ]_vars

(***************************************************************************)
(* The per-collection configs                                              *)
(***************************************************************************)
\* The calls that set a list of a config.
ListSetters ==
    {"CollectionConfig.setChannels", "CollectionConfig.setDocumentIDs",
     "CollectionConfiguration.setChannels", "CollectionConfiguration.setDocumentIDs"}

\* What the getter of the list the call op sets returns, on config
\* (collection or position) x of instance i.
ListAfter(op, i, x) ==
    CASE op = "CollectionConfig.setChannels" -> JList(ConfigOf(i, x).channels, lists)
      [] op = "CollectionConfig.setDocumentIDs" -> JList(ConfigOf(i, x).documentIDs, lists)
      [] op = "CollectionConfiguration.setChannels" ->
             JList(ConfigurationOf(i, x).channels, lists)
      [] op = "CollectionConfiguration.setDocumentIDs" ->
             JList(ConfigurationOf(i, x).documentIds, lists)

\* C17: the channels and document IDs of every config, of either class, are
\* lists (empty ones in the two configs the caller has just constructed,
\* before any call), and setChannels /
\* setDocumentIDs called with null or undefined does not throw and leaves the
\* getter returning an empty list.
C17_ListsNeverNull ==
    /\ [](/\ \A k \in DOMAIN oldCfgs :
                 oldCfgs[k].channels \in DOMAIN lists /\ oldCfgs[k].documentIDs \in DOMAIN lists
          /\ \A n \in DOMAIN newCfgs :
                 newCfgs[n].channels \in DOMAIN lists /\ newCfgs[n].documentIds \in DOMAIN lists
          /\ nops = 0 =>
                 /\ oldCfgs[1] = NewCollectionConfig(1, 2)
                 /\ newCfgs[3] = NewCollectionConfiguration("audit", 9, 10)
                 /\ \A l \in {1, 2, 9, 10} : JList(l, lists) = JArr(<<>>))
    /\ [][ (nops' = nops + 1 /\ last'.op \in ListSetters /\ last'.args[2] <= 0)
           => /\ last'.err = NoError
              /\ (ListAfter(last.op, last.inst, last.args[1]))' = JArr(<<>>) ]_vars

\* The calls that set a filter of a config.
FilterSetters ==
    {"CollectionConfig.setPushFilter", "CollectionConfig.setPullFilter",
     "CollectionConfiguration.setPushFilter", "CollectionConfiguration.setPullFilter"}

\* C18: setPushFilter / setPullFilter, of either class, called with a value
\* that is no function fails and changes nothing, and called with a function
\* stores its source text; every stored filter text is the source text of a
\* function.
C18_OnlyFunctionsBecomeFilters ==
    /\ [](/\ \A k \in DOMAIN oldCfgs :
                 {oldCfgs[k].pushFilter, oldCfgs[k].pullFilter} \subseteq FilterSources \cup {UNDEF}
          /\ \A n \in DOMAIN newCfgs :
                 {newCfgs[n].pushFilter, newCfgs[n].pullFilter} \subseteq FilterSources \cup {UNDEF})
    /\ [][ (nops' = nops + 1 /\ last'.op \in FilterSetters)
           => IF last'.args[2].t = "function"
              THEN /\ last'.err = NoError
                   /\ last'.args[2].src \in (StoredFilters(inst[last.inst]))'
              ELSE last'.err # NoError /\ heap' = heap ]_vars

(***************************************************************************)
(* The serialized record                                                   *)
(***************************************************************************)
\* C19: in the record of a successful toJson(), headers, pinned certificate
\* and authenticator that are absent are the empty string, headers and
\* certificate that are present are themselves, and an authenticator that is
\* present is a record with the keys type and data.
C19_AbsentFieldsAreEmptyStrings ==
    /\ \A i \in DOMAIN inst :
           LET r == inst[i]
               out == ToJson(inst[i])
               ret == out.ret
           IN  out.err = NoError =>
                   /\ ret.headers = IF r.headers = 0 THEN JStr("") ELSE JObj(hdrs[r.headers])
                   /\ ret.pinnedServerCertificate =
                          IF r.pinnedServerCertificate = UNDEF THEN JStr("")
                          ELSE JStr(r.pinnedServerCertificate)
                   /\ IF r.authenticator = UNDEF THEN ret.authenticator = JStr("")
                      ELSE /\ ret.authenticator.t = "object"
                           /\ Keys(ret.authenticator) = {"type", "data"}
                           /\ Prop(ret.authenticator, "type") = JStr(r.authenticator)
                   /\ {ret.headers, ret.pinnedServerCertificate, ret.authenticator}
                          \cap {JNull, JUndef} = {}
    /\ (last.op = "toJson" /\ last.err = NoError) => last.ret = ToJson(inst[last.inst]).ret

\* toJson() has succeeded on an instance with an authenticator, without
\* headers and without a pinned certificate.
C19_Witness ==
    /\ last.op = "toJson"
    /\ last.err = NoError
    /\ inst[last.inst].authenticator \in Authenticators
    /\ inst[last.inst].headers = 0
    /\ inst[last.inst].pinnedServerCertificate = UNDEF
    /\ last.ret.authenticator # JStr("")
    /\ last.ret.headers = JStr("")
    /\ last.ret.pinnedServerCertificate = JStr("")

\* C20: every element of the collectionConfig of a successful toJson() has
\* the key collection and not collections on the new API, and the key
\* collections and not collection on the old API.
C20_SchemaKeyDiscriminates ==
    /\ \A i \in DOMAIN inst :
           LET cc == Decoded(ToJson(inst[i]))
           IN  \A j \in DOMAIN cc :
                   LET keys == Keys(cc[j])
                   IN  IF inst[i].isNewApi
                       THEN "collection" \in keys /\ "collections" \notin keys
                       ELSE "collections" \in keys /\ "collection" \notin keys
    /\ (last.op = "toJson" /\ last.err = NoError) =>
           /\ last.ret.collectionConfig = ToJson(inst[last.inst]).ret.collectionConfig
           /\ Len(last.ret.collectionConfig.v) > 0

\* toJson() has succeeded on the clone of a new-API instance with two
\* collection configurations.
C20_Witness ==
    /\ last.op = "toJson"
    /\ last.err = NoError
    /\ last.inst = 2
    /\ inst[2].isNewApi
    /\ Len(last.ret.collectionConfig.v) = 2
    /\ \A j \in 1 .. 2 : "collection" \in Keys(last.ret.collectionConfig.v[j])

\* C21: getCollections() never fails and returns the collections in
\* attachment order.  On the new API these are the collections of the
\* configurations given to the constructor, one per configuration and in
\* their order, whatever is called afterwards, and a clone has the same.  On
\* the old API the list is empty after construction; a set attached under a
\* new key adds its members at the end, a set attached again under its key
\* leaves the list as it is.
C21_GetCollectionsInOrder ==
    /\ []((nops = 0 /\ last.err = NoError) =>
              IF last.args[1].array
              THEN /\ Len(GetCollections(inst[1])) = Len(last.args[1].list)
                   /\ \A j \in DOMAIN last.args[1].list :
                          GetCollections(inst[1])[j]
                              = CallerConfigurations[last.args[1].list[j]].collection
              ELSE GetCollections(inst[1]) = <<>>)
    /\ [][ /\ IsCall("getCollections") =>
                  /\ last'.err = NoError
                  /\ last'.ret = GetCollections(inst[last'.inst])
           /\ \A i \in DOMAIN inst :
                  inst[i].isNewApi =>
                      (GetCollections(inst[i]))' = GetCollections(inst[i])
           /\ (IsCall("clone") /\ last'.err = NoError) =>
                  (GetCollections(inst[last.ret]))'
                      = GetCollections(inst[last'.inst])
           /\ (IsCall("addCollection") /\ last'.err = NoError) =>
                  (GetCollections(inst[last.inst]))'
                      = Append(GetCollections(inst[last'.inst]), last'.args[1])
           /\ (IsCall("addCollections") /\ last'.err = NoError) =>
                  (GetCollections(inst[last.inst]))'
                      = IF \E j \in DOMAIN inst[last'.inst].collectionsMap :
                               inst[last'.inst].collectionsMap[j].key = last'.args[1]
                        THEN GetCollections(inst[last'.inst])
                        ELSE GetCollections(inst[last'.inst]) \o arrays[last'.args[1]] ]_vars

\* getCollections() has returned [orders, users] on an old-API instance: two
\* sets, attached in an order that is not the order of the names.
C21_Witness ==
    /\ last.op = "getCollections"
    /\ last.err = NoError
    /\ ~ inst[last.inst].isNewApi
    /\ Len(inst[last.inst].collectionsMap) = 2
    /\ last.ret = <<"orders", "users">>

\* C22: setHeartbeat(n) fails for n < 0 and changes nothing; the heartbeat
\* is never negative, from the default of construction on.
C22_HeartbeatNeverNegative ==
    /\ []((nops = 0 /\ last.err = NoError) => inst[1].heartbeat = defaultHeartbeat)
    /\ [](\A i \in DOMAIN inst : inst[i].heartbeat >= 0)
    /\ [][ (IsCall("setHeartbeat") /\ last'.args[1] < 0)
           => last'.err # NoError /\ heap' = heap ]_vars

\* C23: every vector index object there is, of either class and however it
\* was made, has dimensions in 2..4096 and centroids >= 1, and so has its
\* toJson(); a constructor or IndexBuilder.vectorIndex given dimensions
\* outside 2..4096 or centroids < 1 fails and makes no object.
C23_VectorIndexShapeInRange ==
    /\ [](\A x \in DOMAIN indexes :
              /\ indexes[x].dimensions >= 2 /\ indexes[x].dimensions <= 4096
              /\ indexes[x].centroids >= 1
              /\ VectorToJson(indexes[x]).dimensions = indexes[x].dimensions
              /\ VectorToJson(indexes[x]).centroids = indexes[x].centroids)
    /\ [][ (/\ \/ IsCall("new VectorIndexConfiguration")
                \/ IsCall("new VectorIndex")
                \/ IsCall("IndexBuilder.vectorIndex")
             /\ \/ last'.args[2] < 2 \/ last'.args[2] > 4096
                \/ last'.args[3] < 1)
           => last'.err # NoError /\ indexes' = indexes ]_vars

\* The map m has callback cb under token t.
Registered(m, t, cb) == \E j \in DOMAIN m : m[j].key = t /\ m[j].val = cb

\* The tokens of the map m.
Tokens(m) == {m[j].key : j \in DOMAIN m}

\* Invocation c enables a logger.
Enables(c) == ~ calls[c].config.isNull

C25_FailedEnableIsRolledBack ==
    [][ \A k \in DOMAIN native :
          (/\ native[k].state = "pending" /\ native'[k].state = "rejected"
           /\ Enables(native[k].by))
          => /\ calls[native[k].by].pc = "awaiting"
             /\ calls'[native[k].by].pc = "failed"
             /\ native[k].args.token \in Tokens(customLogCallbacksMap)
                    \/ \E c \in DOMAIN calls : c > native[k].by
             /\ native[k].args.token \notin Tokens(customLogCallbacksMap')
             /\ currentCustomToken' = -1 ]_vars

\* The native call of an enabling setCustom has failed, and the callback it
\* had registered is gone.
C25_Witness ==
    \E k \in DOMAIN native :
        /\ native[k].state = "rejected"
        /\ Enables(native[k].by)
        /\ native[k].by = Len(calls)
        /\ calls[native[k].by].pc = "failed"
        /\ customLogCallbacksMap = <<>>
        /\ currentCustomToken = -1

\* C26: setCustom calls being made one after another, after every completed
\* call the map has at most one callback, it has one exactly when
\* currentCustomToken is not null, under that token; after a completed
\* setCustom(null) it has none.
C26_AtMostOneCallbackWhenAwaited ==
    Settled =>
        /\ Len(customLogCallbacksMap) <= 1
        /\ Len(customLogCallbacksMap) = 1 <=> currentCustomToken # -1
        /\ Tokens(customLogCallbacksMap) \subseteq {currentCustomToken}
        /\ \A j \in DOMAIN customLogCallbacksMap :
               \E c \in DOMAIN calls :
                   /\ Enables(c) /\ calls[c].pc = "done"
                   /\ customLogCallbacksMap[j]
                          = [key |-> Uuid(c), val |-> calls[c].config.callback]
        /\ (calls # <<>> /\ ~ Enables(Len(calls))) =>
               customLogCallbacksMap = <<>> /\ currentCustomToken = -1

\* Two enabling calls have completed one after the other: the callback of
\* the second is the only one in the map.
C26_Witness ==
    /\ Settled
    /\ Len(calls) >= 2
    /\ Enables(1) /\ Enables(2)
    /\ calls[1].pc = "done" /\ calls[2].pc = "done"
    /\ Tokens(customLogCallbacksMap) = {Uuid(2)}
    /\ currentCustomToken = Uuid(2)

\* C27: setCustom calls overlapping in any way, once all have completed every
\* token in the map is the current one, so that the clearing a setCustom(null)
\* starts with leaves the map empty.
C27_NoOrphanAfterOverlap ==
    Settled =>
        /\ Tokens(customLogCallbacksMap) \subseteq {currentCustomToken}
        /\ ClearExisting(customLogCallbacksMap, currentCustomToken) = <<>>

\* C28: on the old API, removeCollection(c), c being the only member of
\* every attached set that has it, returns with c attached nowhere:
\* getCollections() has no c and getCollectionConfig(c) is undefined.
C28_RemovedIsAttachedNowhere ==
    [][ (/\ IsCall("removeCollection")
         /\ ~ inst[last'.inst].isNewApi
         /\ \A j \in EntriesWith(inst[last'.inst].collectionsMap, arrays, last'.args[1]) :
                Without(arrays[inst[last'.inst].collectionsMap[j].key], last'.args[1]) = <<>>)
        => /\ last'.err = NoError
           /\ ~ Includes((GetCollections(inst[last.inst]))', last'.args[1])
           /\ LookupConfig(inst'[last'.inst].collectionsMap, arrays', last'.args[1]) = 0 ]_vars

\* C29: on the old API, after addCollection(c, cfg) the config of c is cfg,
\* whatever was attached before: getCollectionConfig(c), called next,
\* returns cfg.
C29_LatestAddDeterminesConfig ==
    [][ /\ (IsCall("addCollection") /\ ~ inst[last'.inst].isNewApi) =>
               /\ last'.err = NoError
               /\ LookupConfig(inst'[last'.inst].collectionsMap, arrays', last'.args[1])
                      = last'.args[2]
        /\ (/\ IsCall("getCollectionConfig")
            /\ last.op = "addCollection" /\ last.err = NoError
            /\ last'.inst = last.inst
            /\ last'.args[1] = last.args[1])
           => last'.err = NoError /\ last'.ret = last.args[2] ]_vars

\* C30: clone() succeeds where toJson() does, and the clone's toJson()
\* gives what the original's gives, success or failure, field by field.
C30_CloneSerializesAsOriginal ==
    [][ IsCall("clone") =>
            /\ ToJson(inst[last'.inst]).err = NoError => last'.err = NoError
            /\ last'.err = NoError =>
                   (ToJson(inst[last.ret]))' = ToJson(inst[last'.inst]) ]_vars

====
